---- MODULE Spec2Model ----
(***************************************************************************)
(* Model of the ST-Calendar-Sync delta reconciliation engine               *)
(* (src/src/services/sync.js) together with the helpers it calls:          *)
(* the event normalizer (src/src/utils/normalize.js), the day splitter     *)
(* (src/src/utils/time.js), the ServiceTitan client                        *)
(* (src/src/api/servicetitan.js) and the Sheets mapping store              *)
(* (services/sheets.js, kept in src/unnamed/part_007).                     *)
(*                                                                         *)
(* Time is counted in ticks: one tick is the resolution of an instant (the *)
(* code's millisecond), a local day has DayLen ticks.  Instants are UTC     *)
(* tick counts, NoTime is the code's null.                                 *)
(* Strings joined with ':' in the code (stable key, dedupe key, status)    *)
(* are tuples/records of their parts here.                                 *)
(***************************************************************************)
EXTENDS Integers, Sequences, FiniteSets, TLC

(* ------------------------------ bounds -------------------------------- *)
\* ticks per local calendar day
DayLen == 4
\* longest batch one fetch returns
MaxBatch == 2
\* events the calendar source newly produces in one behaviour
MaxFresh == 2
\* number of per-user runs started in one behaviour
MaxRuns == 2
\* number of downstream / store failures injected in one behaviour
MaxFailures == 1

(* ---------------------------- time (time.js) --------------------------- *)
\* null start/end/lastModified
NoTime == 0 - 1

\* TIMEZONE = 'America/Chicago': local = utc + TzOffset (one tick west of UTC)
TzOffset == 0 - 1

ToLocal(utc) == utc + TzOffset

ToUtc(local) == local - TzOffset

LocalDay(local) == local \div DayLen

startOfDay(local) == LocalDay(local) * DayLen

endOfDay(local) == LocalDay(local) * DayLen + (DayLen - 1)

hasSameDay(a, b) == LocalDay(a) = LocalDay(b)

\* the while loop of splitMultiDayEvent; start, end, cursor are local ticks,
\* the blocks hold instants (toISO keeps the instant)
RECURSIVE SplitLoop(_, _, _, _)
SplitLoop(start, end, cursor, blocks) ==
  IF ~(cursor < end) THEN blocks
  ELSE LET currentDayEnd == endOfDay(cursor)
           blockStart == IF hasSameDay(cursor, start) THEN start ELSE startOfDay(cursor)
           blockEnd == IF hasSameDay(cursor, start)
                         THEN (IF end < currentDayEnd THEN end ELSE currentDayEnd)
                         ELSE IF hasSameDay(cursor, end) THEN end ELSE currentDayEnd
       IN SplitLoop(start, end, startOfDay(currentDayEnd + 1),
                    Append(blocks, [start |-> ToUtc(blockStart), end |-> ToUtc(blockEnd)]))

\* variant: no early return for a start and end on one local day
SplitWithoutSameDayReturn(startISO, endISO) ==
  SplitLoop(ToLocal(startISO), ToLocal(endISO), ToLocal(startISO), << >>)

splitMultiDayEvent(startISO, endISO) ==
  LET start == ToLocal(startISO)
      end == ToLocal(endISO)
  IN IF hasSameDay(start, end)
       THEN << [start |-> ToUtc(start), end |-> ToUtc(end)] >>
       ELSE SplitLoop(start, end, start, << >>)

(* ----------------------- normalizer (normalize.js) --------------------- *)
NoDate == [dateTime |-> NoTime, timeZone |-> ""]

ZoneOffset(zone) == IF zone = "America/Chicago" THEN TzOffset ELSE 0

\* a missing object or dateTime gives null; else the wall time of the declared
\* zone (UTC when none is declared) is converted to the UTC instant
normalizeDateTime(dateObj) ==
  IF dateObj.dateTime = NoTime THEN NoTime
  ELSE dateObj.dateTime - ZoneOffset(dateObj.timeZone)

toLowerCase(s) ==
  CASE s = "Busy" -> "busy"
    [] s = "Free" -> "free"
    [] s = "Oof" -> "oof"
    [] s = "Tentative" -> "tentative"
    [] s = "Private" -> "private"
    [] s = "workingElsewhere" -> "workingelsewhere"
    [] OTHER -> s

normalizeGraphEvent(event) ==
  [ id |-> event.id,
    iCalUId |-> event.iCalUId,
    subject |-> event.subject,
    start |-> normalizeDateTime(event.start),
    end |-> normalizeDateTime(event.end),
    isAllDay |-> event.isAllDay,
    showAs |-> toLowerCase(IF event.showAs = "" THEN "busy" ELSE event.showAs),
    isPrivate |-> toLowerCase(event.sensitivity) = "private",
    lastModifiedDateTime |-> event.lastModifiedDateTime,
    isRemoved |-> event.removed ]

DEDUPE_KEY_VERSION == "v3"

\* variant: the subject is part of the key whatever the sensitivity
getEventDedupeKeyWithSubject(event) ==
  << DEDUPE_KEY_VERSION,
     event.id,
     event.iCalUId,
     event.lastModifiedDateTime,
     IF event.isPrivate THEN "P" ELSE "N",
     event.showAs,
     IF event.isAllDay THEN "A" ELSE "T",
     event.start,
     event.end,
     event.subject >>

getEventDedupeKey(event) ==
  << DEDUPE_KEY_VERSION,
     event.id,
     event.iCalUId,
     event.lastModifiedDateTime,
     IF event.isPrivate THEN "P" ELSE "N",
     event.showAs,
     IF event.isAllDay THEN "A" ELSE "T",
     event.start,
     event.end,
     IF event.isPrivate THEN "" ELSE event.subject >>

\* String.prototype.trim on the uids of the model
trim(s) == IF s = " " THEN "" ELSE s

getStableEventKey(event) ==
  LET uid == trim(event.iCalUId)
  IN IF uid # "" /\ event.start # NoTime /\ event.end # NoTime
       THEN << uid, event.start, event.end >>
       ELSE << event.id, event.start, event.end >>

(* ------------------- ServiceTitan client (servicetitan.js) ------------- *)
\* The engine's view of one event being processed is threaded through the
\* calls as a record:
\*   appts   the appointments that exist downstream
\*   nextId  the id the next successful create returns
\*   sheet   the EventMap rows
\*   calls   the downstream calls made so far, in order
\*   writes  the EventMap writes attempted so far, in order
\*   threw   an exception is propagating
\*   ret     the value the last call returned
\*   budget  failures the collaborators may still answer with
\* A call to a collaborator yields the set of records it can leave behind:
\* the call succeeded, or it failed with a non-retryable (or retry-exhausted)
\* error.

Logged(s, op, id, pos, ok) ==
  [s EXCEPT !.calls = Append(@, [op |-> op, id |-> id, pos |-> pos, ok |-> ok])]

Faults(s, t) ==
  IF s.budget > 0 THEN { [t EXCEPT !.threw = TRUE, !.budget = @ - 1] } ELSE {}

createNonJob(s, pos) ==
  { [Logged(s, "create", s.nextId, pos, TRUE) EXCEPT
       !.appts = @ \cup {s.nextId}, !.nextId = @ + 1, !.ret = s.nextId] }
  \cup Faults(s, Logged(s, "create", 0, pos, FALSE))

\* PUT on an id that no longer exists answers 404, which stApiRequest throws
updateNonJob(s, appointmentId, pos) ==
  IF appointmentId \notin s.appts
    THEN { [Logged(s, "update", appointmentId, pos, FALSE) EXCEPT !.threw = TRUE] }
    ELSE { Logged(s, "update", appointmentId, pos, TRUE) }
         \cup Faults(s, Logged(s, "update", appointmentId, pos, FALSE))

\* DELETE: a 404 is swallowed (already missing), any other error is rethrown
\* variant: the 404 of an id that is already gone is thrown like any error
deleteNonJobThrowing404(s, appointmentId, op, pos) ==
  ( IF appointmentId \in s.appts
      THEN { [Logged(s, op, appointmentId, pos, TRUE) EXCEPT !.appts = @ \ {appointmentId}] }
      ELSE { [Logged(s, op, appointmentId, pos, FALSE) EXCEPT !.threw = TRUE] } )
  \cup Faults(s, Logged(s, op, appointmentId, pos, FALSE))

\* DELETE answers 204, or 404 when the id is gone: that error is caught and
\* the call returns; every other error of stApiRequest is thrown
deleteNonJob(s, appointmentId, op, pos) ==
  ( IF appointmentId \in s.appts
      THEN { [Logged(s, op, appointmentId, pos, TRUE) EXCEPT !.appts = @ \ {appointmentId}] }
      ELSE { Logged(s, op, appointmentId, pos, TRUE) } )
  \cup Faults(s, Logged(s, op, appointmentId, pos, FALSE))

(* --------------------- mapping store (services/sheets.js) -------------- *)
\* An EventMap row; its row index in the sheet is its position + 1 (header).
Row(upn, key, ids, hash, status) ==
  [ outlook_upn |-> upn, outlook_event_id |-> key, st_nonjob_ids_json |-> ids,
    last_hash |-> hash, status |-> status ]

Synced(gid) == [tag |-> "SYNCED", gid |-> gid]

Deleted == [tag |-> "DELETED", gid |-> ""]

\* the null a lookup returns
NoMapping ==
  [ rowIndex |-> 0, outlook_upn |-> "", outlook_event_id |-> << "", NoTime, NoTime >>,
    st_nonjob_ids_json |-> << >>, last_hash |-> << >>, status |-> [tag |-> "", gid |-> ""] ]

AsMapping(sheet, i) ==
  [ rowIndex |-> i + 1,
    outlook_upn |-> sheet[i].outlook_upn,
    outlook_event_id |-> sheet[i].outlook_event_id,
    st_nonjob_ids_json |-> sheet[i].st_nonjob_ids_json,
    last_hash |-> sheet[i].last_hash,
    status |-> sheet[i].status ]

FirstRow(sheet, hits) ==
  IF hits = {} THEN NoMapping
  ELSE AsMapping(sheet, CHOOSE i \in hits : \A j \in hits : i <= j)

findEventMapping(sheet, outlookUpn, outlookEventId) ==
  FirstRow(sheet, { i \in 1..Len(sheet) : /\ sheet[i].outlook_upn = outlookUpn
                                          /\ sheet[i].outlook_event_id = outlookEventId })

\* lookup by the gid=... marker the upsert leaves in the status cell
findEventMappingByGraphId(sheet, outlookUpn, graphId) ==
  FirstRow(sheet, { i \in 1..Len(sheet) : /\ sheet[i].outlook_upn = outlookUpn
                                          /\ sheet[i].status.gid = graphId })

updateEventMapping(s, outlookUpn, outlookEventId, stNonJobIds, lastHash, status, existingRowIndex) ==
  LET rowData == Row(outlookUpn, outlookEventId, stNonJobIds, lastHash, status)
      entry(ok) == [row |-> rowData, rowIndex |-> existingRowIndex, ok |-> ok]
  IN { [s EXCEPT !.writes = Append(@, entry(TRUE)),
                 !.sheet = IF existingRowIndex # 0
                             THEN [@ EXCEPT ![existingRowIndex - 1] = rowData]
                             ELSE Append(@, rowData)] }
     \cup Faults(s, [s EXCEPT !.writes = Append(@, entry(FALSE))])

deleteEventMapping(s, outlookUpn, outlookEventId, existingMapping) ==
  IF existingMapping.rowIndex # 0
    THEN updateEventMapping(s, outlookUpn, outlookEventId, << >>,
                            existingMapping.last_hash, Deleted, existingMapping.rowIndex)
    ELSE {s}

(* ------------------------ payload mapper (mapping.js) ------------------ *)
\* the name policy of the later revision of the mapper
getMaskedSubject(event) ==
  LET showAs == toLowerCase(IF event.showAs # "" THEN event.showAs ELSE "busy")
      subject == trim(event.subject)
  IN IF event.isPrivate THEN "Busy"
     ELSE IF subject # "" THEN subject
     ELSE IF showAs = "oof" THEN "Out of Office" ELSE "Busy"

\* variant: the subject is copied whatever the sensitivity
MapWithoutMasking(event) ==
  LET eventBlocks == splitMultiDayEvent(event.start, event.end)
      subject == IF event.subject # "" THEN event.subject ELSE "Calendar Event"
  IN [ i \in 1..Len(eventBlocks) |->
         [ start |-> eventBlocks[i].start,
           duration |-> eventBlocks[i].end - eventBlocks[i].start,
           name |-> subject,
           allDay |-> event.isAllDay ] ]

\* one payload per day block, in block order
mapEventToServiceTitanPayloads(event) ==
  LET eventBlocks == splitMultiDayEvent(event.start, event.end)
      subject == IF event.isPrivate THEN "Busy"
                 ELSE IF event.subject # "" THEN event.subject ELSE "Calendar Event"
  IN [ i \in 1..Len(eventBlocks) |->
         [ start |-> eventBlocks[i].start,
           duration |-> eventBlocks[i].end - eventBlocks[i].start,
           name |-> subject,
           allDay |-> event.isAllDay ] ]

(* --------------------- reconciliation engine (sync.js) ----------------- *)
isAvailabilityEvent(showAs) == showAs = "free" \/ showAs = "available"

isSyncableBusyOrOof(showAs) == showAs = "busy" \/ showAs = "oof"

\* the for loop of deleteMappedEvent, from position i on
RECURSIVE DeleteIds(_, _, _)
DeleteIds(s, existingIds, i) ==
  IF i > Len(existingIds) THEN {s}
  ELSE UNION { IF d.threw THEN {d} ELSE DeleteIds(d, existingIds, i + 1)
               : d \in deleteNonJob(s, existingIds[i], "delete", i) }

deleteMappedEvent(s, userUpn, outlookEventId, existingMapping) ==
  UNION { IF d.threw THEN {d}
          ELSE deleteEventMapping(d, userUpn, outlookEventId, existingMapping)
          : d \in DeleteIds(s, existingMapping.st_nonjob_ids_json, 1) }

\* what one position of the first loop of upsertServiceTitanAppointments can
\* leave behind: the record after it, with ret the id pushed onto currentIds
\* variant: no try/catch around the delete of the stale id
UpsertPositionStaleDeleteThrows(s, appointmentId, index) ==
  IF appointmentId # 0
    THEN UNION { IF ~u.threw THEN { [u EXCEPT !.ret = appointmentId] }
                 ELSE UNION { IF c.threw THEN {c}
                              ELSE { [d EXCEPT !.ret = c.ret]
                                     : d \in deleteNonJob(c, appointmentId, "delete", index) }
                              : c \in createNonJob([u EXCEPT !.threw = FALSE], index) }
                 : u \in updateNonJob(s, appointmentId, index) }
    ELSE createNonJob(s, index)

UpsertPosition(s, appointmentId, index) ==
  IF appointmentId # 0
    THEN UNION { IF ~u.threw THEN { [u EXCEPT !.ret = appointmentId] }
                 ELSE UNION { IF c.threw THEN {c}
                              ELSE { [d EXCEPT !.threw = FALSE, !.ret = c.ret]
                                     : d \in deleteNonJob(c, appointmentId, "delete", index) }
                              : c \in createNonJob([u EXCEPT !.threw = FALSE], index) }
                 : u \in updateNonJob(s, appointmentId, index) }
    ELSE createNonJob(s, index)

\* the first loop from position index on; s.ret is currentIds
RECURSIVE UpsertPositions(_, _, _, _)
UpsertPositions(s, n, previousIds, index) ==
  IF index > n THEN {s}
  ELSE LET appointmentId == IF index <= Len(previousIds) THEN previousIds[index] ELSE 0
           currentIds == s.ret
       IN UNION { IF t.threw THEN {t}
                  ELSE UpsertPositions([t EXCEPT !.ret = Append(currentIds, t.ret)],
                                       n, previousIds, index + 1)
                  : t \in UpsertPosition(s, appointmentId, index) }

\* the second loop: previous ids beyond the new block count
RECURSIVE DeleteSurplus(_, _, _)
DeleteSurplus(s, previousIds, index) ==
  IF index > Len(previousIds) THEN {s}
  ELSE UNION { IF d.threw THEN {d} ELSE DeleteSurplus(d, previousIds, index + 1)
               : d \in deleteNonJob(s, previousIds[index], "delete", index) }

\* variant: currentIds starts as a copy of the previous ids
UpsertKeepingPreviousIds(s, event, existingMapping) ==
  LET payloads == mapEventToServiceTitanPayloads(event)
      previousIds == IF existingMapping.rowIndex # 0
                       THEN existingMapping.st_nonjob_ids_json ELSE << >>
  IN UNION { IF p.threw THEN {p} ELSE DeleteSurplus(p, previousIds, Len(payloads) + 1)
             : p \in UpsertPositions([s EXCEPT !.ret = previousIds], Len(payloads), previousIds, 1) }

\* variant: the loop over the surplus ids is missing
UpsertWithoutSurplusDelete(s, event, existingMapping) ==
  LET payloads == mapEventToServiceTitanPayloads(event)
      previousIds == IF existingMapping.rowIndex # 0
                       THEN existingMapping.st_nonjob_ids_json ELSE << >>
  IN UpsertPositions([s EXCEPT !.ret = << >>], Len(payloads), previousIds, 1)

upsertServiceTitanAppointments(s, event, existingMapping) ==
  LET payloads == mapEventToServiceTitanPayloads(event)
      previousIds == IF existingMapping.rowIndex # 0
                       THEN existingMapping.st_nonjob_ids_json ELSE << >>
  IN UNION { IF p.threw THEN {p} ELSE DeleteSurplus(p, previousIds, Len(payloads) + 1)
             : p \in UpsertPositions([s EXCEPT !.ret = << >>], Len(payloads), previousIds, 1) }

\* the best-effort deletes in the catch block of processNormalizedEvent
RECURSIVE Rollback(_, _, _)
Rollback(s, appointmentIds, i) ==
  IF i > Len(appointmentIds) THEN {s}
  ELSE UNION { Rollback([d EXCEPT !.threw = FALSE], appointmentIds, i + 1)
               : d \in deleteNonJob(s, appointmentIds[i], "rollback", i) }

\* variant: the event is counted as upserted although its mapping write failed
UpsertAndRecordCountingFailedWrite(s, userUpn, normalizedEvent, stableKey, dedupeKey, existingMapping) ==
  UNION { IF u.threw THEN {u}
          ELSE { [w EXCEPT !.threw = FALSE, !.outcome = "upserted"]
                 : w \in updateEventMapping(u, userUpn, stableKey, u.ret, dedupeKey,
                                            Synced(normalizedEvent.id),
                                            existingMapping.rowIndex) }
          : u \in upsertServiceTitanAppointments(s, normalizedEvent, existingMapping) }

\* lines 137-164: upsert, write the mapping row, roll back when the write fails
UpsertAndRecord(s, userUpn, normalizedEvent, stableKey, dedupeKey, existingMapping) ==
  UNION { IF u.threw THEN {u}
          ELSE UNION { IF ~w.threw THEN { [w EXCEPT !.outcome = "upserted"] }
                       ELSE IF existingMapping.rowIndex = 0
                         THEN { [r EXCEPT !.threw = TRUE]
                                : r \in Rollback([w EXCEPT !.threw = FALSE], u.ret, 1) }
                         ELSE {w}
                       : w \in updateEventMapping(u, userUpn, stableKey, u.ret, dedupeKey,
                                                  Synced(normalizedEvent.id),
                                                  existingMapping.rowIndex) }
          : u \in upsertServiceTitanAppointments(s, normalizedEvent, existingMapping) }

Skipped(S) == { [t EXCEPT !.outcome = IF t.threw THEN "" ELSE "skipped"] : t \in S }

\* variant: an event without start or end is not turned away
processNormalizedEventWithoutTimeCheck(s, userUpn, normalizedEvent) ==
  LET stableKey == getStableEventKey(normalizedEvent)
      existingMapping == findEventMapping(s.sheet, userUpn, stableKey)
      dedupeKey == getEventDedupeKey(normalizedEvent)
      mappingByGid == findEventMappingByGraphId(s.sheet, userUpn, normalizedEvent.id)
  IN ( IF normalizedEvent.isRemoved
         THEN IF mappingByGid.rowIndex # 0
                THEN Skipped(deleteMappedEvent(s, userUpn, mappingByGid.outlook_event_id,
                                               mappingByGid))
                ELSE Skipped({s})
       ELSE IF ~isSyncableBusyOrOof(normalizedEvent.showAs)
         THEN IF existingMapping.rowIndex # 0
                THEN Skipped(deleteMappedEvent(s, userUpn, stableKey, existingMapping))
                ELSE Skipped({s})
       ELSE IF existingMapping.rowIndex # 0 /\ existingMapping.last_hash = dedupeKey
         THEN Skipped({s})
       ELSE UpsertAndRecord(s, userUpn, normalizedEvent, stableKey, dedupeKey, existingMapping) )

\* processNormalizedEvent: the records the event can leave behind; outcome is
\* the summary counter it incremented ("skipped" / "upserted"), threw that it
\* ended by an exception
processNormalizedEvent(s, userUpn, normalizedEvent) ==
  LET stableKey == getStableEventKey(normalizedEvent)
      existingMapping == findEventMapping(s.sheet, userUpn, stableKey)
      dedupeKey == getEventDedupeKey(normalizedEvent)
      mappingByGid == findEventMappingByGraphId(s.sheet, userUpn, normalizedEvent.id)
  IN ( IF normalizedEvent.isRemoved
         THEN IF mappingByGid.rowIndex # 0
                THEN Skipped(deleteMappedEvent(s, userUpn, mappingByGid.outlook_event_id,
                                               mappingByGid))
                ELSE Skipped({s})
       ELSE IF normalizedEvent.start = NoTime \/ normalizedEvent.end = NoTime
         THEN Skipped({s})
       ELSE IF isAvailabilityEvent(normalizedEvent.showAs)
         THEN IF existingMapping.rowIndex # 0
                THEN Skipped(deleteMappedEvent(s, userUpn, stableKey, existingMapping))
                ELSE Skipped({s})
       ELSE IF ~isSyncableBusyOrOof(normalizedEvent.showAs)
         THEN IF existingMapping.rowIndex # 0
                THEN Skipped(deleteMappedEvent(s, userUpn, stableKey, existingMapping))
                ELSE Skipped({s})
       ELSE IF existingMapping.rowIndex # 0 /\ existingMapping.last_hash = dedupeKey
         THEN Skipped({s})
       ELSE UpsertAndRecord(s, userUpn, normalizedEvent, stableKey, dedupeKey, existingMapping) )

(* ------------------------------ the inputs ----------------------------- *)
Upn == "tech@example.com"

\* wall time of local day d, tick t of the day, declared in the target zone
At(d, t) == [dateTime |-> d * DayLen + t, timeZone |-> "America/Chicago"]

\* a one-block occurrence as Graph returns it, and the tombstone of its id
RawVisit ==
  [ id |-> "g1", iCalUId |-> "U", subject |-> "Visit", start |-> At(1, 1), end |-> At(1, 2),
    isAllDay |-> FALSE, showAs |-> "Busy", sensitivity |-> "normal",
    lastModifiedDateTime |-> 1, removed |-> FALSE ]

RawTombstone ==
  [ id |-> "g1", iCalUId |-> "", subject |-> "", start |-> NoDate, end |-> NoDate,
    isAllDay |-> FALSE, showAs |-> "", sensitivity |-> "",
    lastModifiedDateTime |-> NoTime, removed |-> TRUE ]

\* what the calendar source can put into a batch
EventPool ==
  { RawVisit,
    [RawVisit EXCEPT !.id = "g2"],
    [RawVisit EXCEPT !.showAs = "Free"],
    [RawVisit EXCEPT !.end = At(2, 1)],
    RawTombstone }

Batches(n) == UNION { [1..k -> EventPool] : k \in 0..n }

\* rows a sheet can hold when the service starts: none, or rows of an earlier
\* deployment (older key version, status without gid marker) whose id lists
\* have another length than today's block count of the occurrence
LegacyHash == << "v2" >>

LegacyRow(event, ids) ==
  Row(Upn, getStableEventKey(normalizeGraphEvent(event)), ids, LegacyHash, Synced(""))

LegacySheet ==
  << LegacyRow(RawVisit, << 1, 2, 3 >>),
     LegacyRow([RawVisit EXCEPT !.end = At(2, 1)], << 4 >>) >>

InitSheets == { << >>, LegacySheet }

IdsOf(sheet) == UNION { { sheet[i].st_nonjob_ids_json[j] : j \in 1..Len(sheet[i].st_nonjob_ids_json) }
                        : i \in 1..Len(sheet) }

\* the appointments of the rows exist downstream, or the last of them was
\* removed in ServiceTitan by hand
InitAppts(sheet) ==
  LET ids == IdsOf(sheet)
  IN IF ids = {} THEN { {} }
     ELSE { ids, ids \ { CHOOSE m \in ids : \A k \in ids : k <= m } }

FirstFreshId == Cardinality(IdsOf(LegacySheet)) + 1

(* -------------------------------- state -------------------------------- *)
VARIABLES
  eventMap,        \* the EventMap sheet: sequence of rows
  deltaSheet,      \* the DeltaState sheet: sequence of [outlook_upn, delta_link]
  appts,           \* appointment ids that exist in ServiceTitan
  nextId,          \* id of the next appointment ServiceTitan creates
  pc,              \* "idle" | "walk": position of runDeltaSyncForUser
  deltaState,      \* local: the row getDeltaState returned
  events,          \* local: the fetched batch (raw events)
  nextDeltaLink,   \* local: the cursor that came with the batch
  idx,             \* local: position of the for loop of processUserEvents
  seen,            \* local: dedupe keys already walked
  summary,         \* local: the run summary
  last,            \* what the last loop iteration did (event, mapping before, calls, outcome)
  run,             \* bookkeeping of the current run: downstream calls and failures so far
  prev,            \* how the run before ended, and its batch
  runs,            \* runs started
  fresh,           \* events the calendar source has produced
  failures,        \* failures injected
  cycle,           \* a sweep over the enabled users: mode, position, summary
  call,            \* a call of a helper on its own: function, arguments, result
  nonJobs,         \* the appointments ServiceTitan lists, in its order
  reports,         \* the cleanup runs made: mode, summary, what was selected
  eventMapCache,   \* per process: the rows findEventMapping keeps in memory
  tasks            \* the runs that share the sheets: process, user, progress

engineVars == << eventMap, deltaSheet, appts, nextId, pc, deltaState, events, nextDeltaLink,
                 idx, seen, summary, last, run, prev, runs, fresh, failures >>

\* the state of the operations that run beside the per-user engine
sideVars == << cycle, call, nonJobs, reports, eventMapCache, tasks >>

vars == << engineVars, sideVars >>

createSummary ==
  [ calendarsProcessed |-> 0, eventsFetched |-> 0, eventsUpserted |-> 0,
    eventsSkipped |-> 0, errors |-> << >> ]

NoLast ==
  [ kind |-> "none", event |-> normalizeGraphEvent(RawTombstone), existing |-> NoMapping,
    byGid |-> NoMapping, calls |-> << >>, writes |-> << >>, ret |-> << >>, outcome |-> "none",
    blocks |-> 0 ]

NoRun == [calls |-> 0, failures |-> 0, rerun |-> FALSE, cursor |-> 0, synced |-> 0]

NoPrev ==
  [ end |-> "none", events |-> << >>, clean |-> FALSE, errors |-> 0, walked |-> 0, cursor |-> 0,
    fetchError |-> "none" ]

NoDeltaState == [rowIndex |-> 0, delta_link |-> 0]

\* no sweep is running
NoCycle ==
  [ pc |-> "idle", mode |-> "", techMap |-> << >>, enabledUsers |-> << >>, index |-> 1,
    summary |-> createSummary, visited |-> << >> ]

\* no helper is being called
NoCall == [fn |-> "none", args |-> << >>, done |-> FALSE, result |-> << >>]

\* no run shares the sheets with another
NoTasks == eventMapCache = << >> /\ tasks = << >>

SideIdle == cycle = NoCycle /\ call = NoCall /\ nonJobs = << >> /\ reports = << >> /\ NoTasks

EngineInit ==
  /\ eventMap \in InitSheets
  /\ deltaSheet = << >>
  /\ appts \in InitAppts(eventMap)
  /\ nextId = FirstFreshId
  /\ pc = "idle"
  /\ deltaState = NoDeltaState
  /\ events = << >>
  /\ nextDeltaLink = 0
  /\ idx = 1
  /\ seen = {}
  /\ summary = createSummary
  /\ last = NoLast
  /\ run = NoRun
  /\ prev = NoPrev
  /\ runs = 0
  /\ fresh = 0
  /\ failures = 0

Init == EngineInit /\ SideIdle

(* --------------------- services/sheets.js: DeltaState ------------------ *)
\* delta_link 0 is the null of a first sync
getDeltaState(sheet, outlookUpn) ==
  LET hits == { i \in 1..Len(sheet) : sheet[i].outlook_upn = outlookUpn }
  IN IF hits = {} THEN NoDeltaState
     ELSE LET i == CHOOSE k \in hits : \A j \in hits : k <= j
          IN [rowIndex |-> i + 1, delta_link |-> sheet[i].delta_link]

updateDeltaState(sheet, outlookUpn, newDeltaLink, existingRowIndex) ==
  LET rowData == [outlook_upn |-> outlookUpn, delta_link |-> newDeltaLink]
  IN IF existingRowIndex # 0
       THEN [sheet EXCEPT ![existingRowIndex - 1] = rowData]
       ELSE Append(sheet, rowData)

\* the cursor stored for the user
Cursor == getDeltaState(deltaSheet, Upn).delta_link

(* ------------------------- sync.js: the run ---------------------------- *)
\* variant: events without a provider id are walked like the others
normalizedEventsUnfiltered == [i \in 1..Len(events) |-> normalizeGraphEvent(events[i])]

\* rawEvents.map(normalizeGraphEvent).filter((event) => Boolean(event.id))
normalizedEvents == SelectSeq([i \in 1..Len(events) |-> normalizeGraphEvent(events[i])],
                              LAMBDA e : e.id # "")

\* runDeltaSyncForUser up to the call of processUserEvents: read the cursor,
\* fetch the batch (the link that comes with it is fresh)
Fetched(batch, again) ==
  /\ pc = "idle"
  /\ runs < MaxRuns
  /\ events' = batch
  /\ summary' = [createSummary EXCEPT !.calendarsProcessed = 1, !.eventsFetched = Len(batch)]
  /\ deltaState' = getDeltaState(deltaSheet, Upn)
  /\ nextDeltaLink' = runs + 1
  /\ runs' = runs + 1
  /\ idx' = 1
  /\ seen' = {}
  /\ run' = [NoRun EXCEPT !.rerun = again, !.cursor = Cursor]
  /\ last' = NoLast
  /\ pc' = "walk"
  /\ UNCHANGED << eventMap, deltaSheet, appts, nextId, prev, failures, sideVars >>

\* what graphRequest throws for a delta request: an invalidated delta link
\* (only when a link was sent) or any other failure
FetchErrors(deltaLink) == IF deltaLink # 0 THEN {"ResyncRequired", "other"} ELSE {"other"}

\* getDeltaEvents throws: nothing around the call catches it, the run ends
\* with the exception before any event is walked
FetchFails ==
  /\ pc = "idle"
  /\ runs < MaxRuns
  /\ failures < MaxFailures
  /\ \E error \in FetchErrors(getDeltaState(deltaSheet, Upn).delta_link) :
       prev' = [prev EXCEPT !.end = "fetchThrew", !.clean = FALSE, !.errors = 0, !.walked = 0,
                            !.cursor = Cursor, !.fetchError = error]
  /\ runs' = runs + 1
  /\ failures' = failures + 1
  /\ UNCHANGED << eventMap, deltaSheet, appts, nextId, pc, deltaState, events, nextDeltaLink,
                  idx, seen, summary, last, run, fresh, sideVars >>

\* the calendar changed: the fetch returns events not seen before
StartRun ==
  \E batch \in Batches(IF MaxFresh - fresh < MaxBatch THEN MaxFresh - fresh ELSE MaxBatch) :
    /\ Fetched(batch, FALSE)
    /\ fresh' = fresh + Len(batch)

\* the calendar did not change: the fetch returns the batch of the run before
\* (the cursor was not advanced, or the run is fetched anew from the window)
StartRerun ==
  /\ prev.end # "none"
  /\ Fetched(prev.events, TRUE)
  /\ fresh' = fresh

\* variant: the seen set is never consulted
seenHasNothing(dedupeKey) == FALSE

\* seen.has(dedupeKey)
seenHas(dedupeKey) == dedupeKey \in seen

\* the mapping writes of one event that succeeded with status SYNCED
SyncedWrites(writes) ==
  Cardinality({ k \in 1..Len(writes) : writes[k].ok /\ writes[k].row.status.tag = "SYNCED" })

\* error.message of what processNormalizedEvent threw: the call that failed
message(r) ==
  IF \E k \in 1..Len(r.writes) : ~r.writes[k].ok THEN "updateEventMapping"
  ELSE IF r.calls = << >> THEN "" ELSE r.calls[Len(r.calls)].op

\* variant: no try/catch in the loop, a throwing event ends the walk
ProcessEventWithoutCatch ==
  /\ pc = "walk"
  /\ idx <= Len(normalizedEvents)
  /\ LET event == normalizedEvents[idx]
         dedupeKey == getEventDedupeKey(event)
     IN IF seenHas(dedupeKey)
          THEN /\ summary' = [summary EXCEPT !.eventsSkipped = @ + 1]
               /\ last' = [NoLast EXCEPT !.kind = "duplicate", !.event = event]
               /\ idx' = idx + 1
               /\ UNCHANGED << eventMap, appts, nextId, seen, run, failures >>
          ELSE LET s0 == [ appts |-> appts, nextId |-> nextId, sheet |-> eventMap,
                           calls |-> << >>, writes |-> << >>, threw |-> FALSE,
                           ret |-> << >>, budget |-> MaxFailures - failures, outcome |-> "" ]
               IN \E r \in processNormalizedEvent(s0, Upn, event) :
                    /\ seen' = seen \cup {dedupeKey}
                    /\ eventMap' = r.sheet
                    /\ appts' = r.appts
                    /\ nextId' = r.nextId
                    /\ summary' =
                         CASE r.threw -> summary
                           [] r.outcome = "upserted" -> [summary EXCEPT !.eventsUpserted = @ + 1]
                           [] OTHER -> [summary EXCEPT !.eventsSkipped = @ + 1]
                    /\ last' = [ kind |-> "processed", event |-> event,
                                 existing |-> findEventMapping(eventMap, Upn, getStableEventKey(event)),
                                 byGid |-> findEventMappingByGraphId(eventMap, Upn, event.id),
                                 calls |-> r.calls, writes |-> r.writes, ret |-> r.ret,
                                 outcome |-> IF r.threw THEN "threw" ELSE r.outcome,
                                 blocks |-> IF event.start = NoTime \/ event.end = NoTime THEN 0
                                            ELSE Len(splitMultiDayEvent(event.start, event.end)) ]
                    /\ run' = [run EXCEPT !.calls = @ + Len(r.calls),
                                          !.failures = @ + (s0.budget - r.budget),
                                          !.synced = @ + SyncedWrites(r.writes)]
                    /\ failures' = failures + (s0.budget - r.budget)
                    /\ idx' = IF r.threw THEN Len(normalizedEvents) + 1 ELSE idx + 1
  /\ UNCHANGED << deltaSheet, pc, deltaState, events, nextDeltaLink, prev, runs, fresh, sideVars >>

\* one iteration of the for loop of processUserEvents
ProcessEvent ==
  /\ pc = "walk"
  /\ idx <= Len(normalizedEvents)
  /\ LET event == normalizedEvents[idx]
         dedupeKey == getEventDedupeKey(event)
     IN IF seenHas(dedupeKey)
          THEN /\ summary' = [summary EXCEPT !.eventsSkipped = @ + 1]
               /\ last' = [NoLast EXCEPT !.kind = "duplicate", !.event = event]
               /\ UNCHANGED << eventMap, appts, nextId, seen, run, failures >>
          ELSE LET s0 == [ appts |-> appts, nextId |-> nextId, sheet |-> eventMap,
                           calls |-> << >>, writes |-> << >>, threw |-> FALSE,
                           ret |-> << >>, budget |-> MaxFailures - failures, outcome |-> "" ]
               IN \E r \in processNormalizedEvent(s0, Upn, event) :
                    /\ seen' = seen \cup {dedupeKey}
                    /\ eventMap' = r.sheet
                    /\ appts' = r.appts
                    /\ nextId' = r.nextId
                    /\ summary' =
                         CASE r.threw -> [summary EXCEPT !.errors =
                                            Append(@, [userUpn |-> Upn, eventId |-> event.id,
                                                       message |-> message(r)])]
                           [] r.outcome = "upserted" -> [summary EXCEPT !.eventsUpserted = @ + 1]
                           [] OTHER -> [summary EXCEPT !.eventsSkipped = @ + 1]
                    /\ last' = [ kind |-> "processed", event |-> event,
                                 existing |-> findEventMapping(eventMap, Upn, getStableEventKey(event)),
                                 byGid |-> findEventMappingByGraphId(eventMap, Upn, event.id),
                                 calls |-> r.calls, writes |-> r.writes, ret |-> r.ret,
                                 outcome |-> IF r.threw THEN "threw" ELSE r.outcome,
                                 blocks |-> IF event.start = NoTime \/ event.end = NoTime THEN 0
                                            ELSE Len(splitMultiDayEvent(event.start, event.end)) ]
                    /\ run' = [run EXCEPT !.calls = @ + Len(r.calls),
                                          !.failures = @ + (s0.budget - r.budget),
                                          !.synced = @ + SyncedWrites(r.writes)]
                    /\ failures' = failures + (s0.budget - r.budget)
  /\ idx' = idx + 1
  /\ UNCHANGED << deltaSheet, pc, deltaState, events, nextDeltaLink, prev, runs, fresh, sideVars >>

\* the run is over: its locals are gone, prev keeps how it ended
Ended(how) ==
  /\ pc' = "idle"
  /\ prev' = [ end |-> how, events |-> events,
               clean |-> how = "returned" /\ run.failures = 0 /\ summary.errors = << >>,
               errors |-> Len(summary.errors), walked |-> idx - 1, cursor |-> run.cursor,
               fetchError |-> "none" ]
  /\ deltaState' = NoDeltaState
  /\ events' = << >>
  /\ nextDeltaLink' = 0
  /\ idx' = 1
  /\ seen' = {}
  /\ summary' = createSummary
  /\ last' = NoLast
  /\ run' = NoRun
  /\ UNCHANGED sideVars

\* variant: the cursor is stored without waiting for the walk to end
PersistCursorBeforeWalkEnds ==
  /\ pc = "walk"
  /\ deltaSheet' = updateDeltaState(deltaSheet, Upn, nextDeltaLink, deltaState.rowIndex)
  /\ Ended("returned")
  /\ UNCHANGED << eventMap, appts, nextId, runs, fresh, failures >>

\* the end of runDeltaSyncForUser: the batch is walked, the cursor is stored
PersistCursor ==
  /\ pc = "walk"
  /\ idx > Len(normalizedEvents)
  /\ deltaSheet' = updateDeltaState(deltaSheet, Upn, nextDeltaLink, deltaState.rowIndex)
  /\ Ended("returned")
  /\ UNCHANGED << eventMap, appts, nextId, runs, fresh, failures >>

\* the write of the cursor fails: the exception propagates to the caller
PersistCursorFails ==
  /\ pc = "walk"
  /\ idx > Len(normalizedEvents)
  /\ failures < MaxFailures
  /\ failures' = failures + 1
  /\ Ended("threw")
  /\ UNCHANGED << eventMap, deltaSheet, appts, nextId, runs, fresh >>

\* the process dies between two awaits of the walk; the sheets and
\* ServiceTitan keep what was written
Crash ==
  /\ pc = "walk"
  /\ idx <= Len(normalizedEvents)
  /\ Ended("crashed")
  /\ UNCHANGED << eventMap, deltaSheet, appts, nextId, runs, fresh, failures >>

Next ==
  \/ StartRun \/ StartRerun \/ FetchFails
  \/ ProcessEvent \/ PersistCursor \/ PersistCursorFails \/ Crash

Spec == Init /\ [][Next]_vars

(* -------------------- sync.js: the multi-user sweeps ------------------- *)
\* rows of the TechMap sheet; a user is known by the number of its row
MaxUsers == 2

TechMaps == UNION { [1..n -> [outlook_upn : 1..MaxUsers, enabled : BOOLEAN]] : n \in 0..MaxUsers }

\* techMap.filter((user) => user.enabled)
enabledUsers(techMap) == SelectSeq(techMap, LAMBDA user : user.enabled)

SweepModes == {"delta", "backfill90", "backfill30"}

\* processUserEvents on a batch of at most one event and a store without rows
UserWalks(userUpn, rawEvents) ==
  LET fetched == [createSummary EXCEPT !.calendarsProcessed = 1, !.eventsFetched = Len(rawEvents)]
      s0 == [ appts |-> {}, nextId |-> 1, sheet |-> << >>, calls |-> << >>, writes |-> << >>,
              threw |-> FALSE, ret |-> << >>, budget |-> 1, outcome |-> "" ]
  IN IF rawEvents = << >> THEN { fetched }
     ELSE { CASE r.threw -> [fetched EXCEPT !.errors =
                               Append(@, [userUpn |-> userUpn, eventId |-> rawEvents[1].id,
                                          message |-> message(r)])]
              [] r.outcome = "upserted" -> [fetched EXCEPT !.eventsUpserted = @ + 1]
              [] OTHER -> [fetched EXCEPT !.eventsSkipped = @ + 1]
            : r \in processNormalizedEvent(s0, userUpn, normalizeGraphEvent(rawEvents[1])) }

\* what the run of one user gives its caller: a summary, or an exception of
\* the fetch or (delta mode) of the cursor write
UserRuns(mode, userUpn) ==
  { [threw |-> TRUE, message |-> "fetch", summary |-> createSummary] }
  \cup { [threw |-> FALSE, message |-> "", summary |-> w]
         : w \in UserWalks(userUpn, << >>) \cup UserWalks(userUpn, << RawVisit >>) }
  \cup IF mode = "delta"
         THEN { [threw |-> TRUE, message |-> "updateDeltaState", summary |-> createSummary] }
         ELSE {}

SweepFrozen == UNCHANGED << engineVars, call, nonJobs, reports, eventMapCache, tasks >>

\* runSyncCycle / runBackfill...AllUsers up to the loop
StartSweep ==
  /\ cycle.pc = "idle"
  /\ \E mode \in SweepModes :
       cycle' = [cycle EXCEPT !.pc = "loop", !.mode = mode,
                              !.enabledUsers = enabledUsers(cycle.techMap)]
  /\ SweepFrozen

\* variant: no try/catch around the run of a user
SweepUserWithoutCatch ==
  /\ cycle.pc = "loop"
  /\ cycle.index <= Len(cycle.enabledUsers)
  /\ LET userConfig == cycle.enabledUsers[cycle.index]
     IN \E o \in UserRuns(cycle.mode, userConfig.outlook_upn) :
          cycle' = IF o.threw
                     THEN [cycle EXCEPT !.index = Len(cycle.enabledUsers) + 1]
                     ELSE [cycle EXCEPT
                             !.index = @ + 1,
                             !.visited = Append(@, [userUpn |-> userConfig.outlook_upn, threw |-> FALSE]),
                             !.summary = [ calendarsProcessed |-> @.calendarsProcessed + o.summary.calendarsProcessed,
                                           eventsFetched |-> @.eventsFetched + o.summary.eventsFetched,
                                           eventsUpserted |-> @.eventsUpserted + o.summary.eventsUpserted,
                                           eventsSkipped |-> @.eventsSkipped + o.summary.eventsSkipped,
                                           errors |-> @.errors \o o.summary.errors ] ]
  /\ SweepFrozen

\* one iteration of the loop over the enabled users
SweepUser ==
  /\ cycle.pc = "loop"
  /\ cycle.index <= Len(cycle.enabledUsers)
  /\ LET userConfig == cycle.enabledUsers[cycle.index]
     IN \E o \in UserRuns(cycle.mode, userConfig.outlook_upn) :
          cycle' = [cycle EXCEPT
                      !.index = @ + 1,
                      !.visited = Append(@, [userUpn |-> userConfig.outlook_upn, threw |-> o.threw]),
                      !.summary =
                         IF o.threw
                           THEN [@ EXCEPT !.errors = Append(@, [userUpn |-> userConfig.outlook_upn,
                                                                message |-> o.message])]
                           ELSE [ calendarsProcessed |-> @.calendarsProcessed + o.summary.calendarsProcessed,
                                  eventsFetched |-> @.eventsFetched + o.summary.eventsFetched,
                                  eventsUpserted |-> @.eventsUpserted + o.summary.eventsUpserted,
                                  eventsSkipped |-> @.eventsSkipped + o.summary.eventsSkipped,
                                  errors |-> @.errors \o o.summary.errors ] ]
  /\ SweepFrozen

\* the loop is over: the sweep returns its summary
FinishSweep ==
  /\ cycle.pc = "loop"
  /\ cycle.index > Len(cycle.enabledUsers)
  /\ cycle' = [cycle EXCEPT !.pc = "done"]
  /\ SweepFrozen

SweepInit ==
  /\ EngineInit
  /\ eventMap = << >>
  /\ appts = {}
  /\ \E techMap \in TechMaps : cycle = [NoCycle EXCEPT !.techMap = techMap]
  /\ call = NoCall
  /\ nonJobs = << >>
  /\ reports = << >>
  /\ NoTasks

SweepNext == StartSweep \/ SweepUser \/ FinishSweep

SweepSpec == SweepInit /\ [][SweepNext]_vars

(* ------------------ services/cleanup.js: duplicate cleanup ------------- *)
\* String(id): the decimal digits of an id below 100
String(id) == IF id < 10 THEN << id >> ELSE << id \div 10, id % 10 >>

\* a.localeCompare(b) < 0 on digit strings
RECURSIVE sortsBefore(_, _)
sortsBefore(a, b) ==
  IF a = << >> THEN b # << >>
  ELSE IF b = << >> THEN FALSE
  ELSE IF a[1] # b[1] THEN a[1] < b[1]
  ELSE sortsBefore(Tail(a), Tail(b))

isOurSyncLikeAppointment(appt) ==
  /\ trim(appt.name) = "Busy" \/ trim(appt.name) = "Out of Office"
  /\ appt.showOnTechnicianSchedule = TRUE
  /\ appt.clearDispatchBoard = TRUE
  /\ appt.clearTechnicianView = FALSE
  /\ appt.removeTechnicianFromCapacityPlanning = TRUE
  /\ appt.active = TRUE

makeSignature(appt) ==
  << appt.technicianId, appt.start, appt.duration, appt.name,
     IF appt.allDay THEN "A" ELSE "T",
     IF appt.showOnTechnicianSchedule THEN "S1" ELSE "S0",
     IF appt.clearDispatchBoard THEN "D1" ELSE "D0",
     IF appt.clearTechnicianView THEN "V1" ELSE "V0",
     IF appt.removeTechnicianFromCapacityPlanning THEN "C1" ELSE "C0",
     IF appt.active THEN "X1" ELSE "X0" >>

\* the ids of all EventMap rows, as strings
getReferencedNonJobIdsSet(sheet) == { String(id) : id \in IdsOf(sheet) \ {0} }

\* the appointments ServiceTitan lists for a technician, in its order
listNonJobs(listing, technicianId) ==
  SelectSeq(listing, LAMBDA appt : appt.technicianId = technicianId)

\* the values of the groups Map: entries per signature, in insertion order
RECURSIVE groupsOf(_, _)
groupsOf(ours, done) ==
  IF ours = << >> THEN << >>
  ELSE LET key == makeSignature(ours[1])
       IN IF key \in done THEN groupsOf(Tail(ours), done)
          ELSE << SelectSeq(ours, LAMBDA appt : makeSignature(appt) = key) >>
               \o groupsOf(Tail(ours), done \cup {key})

\* [...entries].sort((a, b) => a.id.localeCompare(b.id))
RECURSIVE sorted(_)
sorted(entries) ==
  IF entries = << >> THEN << >>
  ELSE LET i == CHOOSE k \in 1..Len(entries) :
                  \A j \in 1..Len(entries) :
                    j = k \/ sortsBefore(String(entries[k].id), String(entries[j].id))
                         \/ (String(entries[k].id) = String(entries[j].id) /\ k < j)
       IN << entries[i] >>
          \o sorted([j \in 1..(Len(entries) - 1) |-> IF j < i THEN entries[j] ELSE entries[j + 1]])

\* variant: the first listed entry is kept, the entries are not sorted
toDeleteKeepingFirstListed(entries, referenced) ==
  LET unref == SelectSeq(entries, LAMBDA e : String(e.id) \notin referenced)
  IN IF Len(entries) <= 1 THEN << >>
     ELSE IF Len(unref) < Len(entries) THEN unref
     ELSE Tail(entries)

\* the members of a group the cleanup selects for deletion
toDelete(entries, referenced) ==
  LET unref == SelectSeq(entries, LAMBDA e : String(e.id) \notin referenced)
  IN IF Len(entries) <= 1 THEN << >>
     ELSE IF Len(unref) < Len(entries) THEN unref
     ELSE Tail(sorted(entries))

\* the deletes of one group; the first that throws ends them
RECURSIVE DeleteEntries(_, _, _)
DeleteEntries(s, entries, i) ==
  IF i > Len(entries) THEN {s}
  ELSE UNION { IF d.threw THEN {d}
               ELSE DeleteEntries([d EXCEPT !.summary.deleted = @ + 1], entries, i + 1)
               : d \in deleteNonJob(s, entries[i].id, "delete", i) }

\* variant: the deletes are made whatever dryRun says
RECURSIVE ProcessGroupsIgnoringDryRun(_, _, _, _, _)
ProcessGroupsIgnoringDryRun(s, groups, g, referenced, dryRun) ==
  IF g > Len(groups) THEN {s}
  ELSE LET selected == toDelete(groups[g], referenced)
           counted == [s EXCEPT !.summary.duplicateGroupsFound = @ + 1,
                                !.summary.appointmentsToDelete = @ + Len(selected),
                                !.selected = @ \cup { selected[k].id : k \in 1..Len(selected) }]
       IN IF selected = << >> THEN ProcessGroupsIgnoringDryRun(s, groups, g + 1, referenced, dryRun)
          ELSE UNION { IF d.threw THEN {d}
                       ELSE ProcessGroupsIgnoringDryRun(d, groups, g + 1, referenced, dryRun)
                       : d \in DeleteEntries(counted, selected, 1) }

\* the loop over the groups of one technician
RECURSIVE ProcessGroups(_, _, _, _, _)
ProcessGroups(s, groups, g, referenced, dryRun) ==
  IF g > Len(groups) THEN {s}
  ELSE LET selected == toDelete(groups[g], referenced)
           counted == [s EXCEPT !.summary.duplicateGroupsFound = @ + 1,
                                !.summary.appointmentsToDelete = @ + Len(selected),
                                !.selected = @ \cup { selected[k].id : k \in 1..Len(selected) }]
       IN IF selected = << >> THEN ProcessGroups(s, groups, g + 1, referenced, dryRun)
          ELSE IF dryRun THEN ProcessGroups(counted, groups, g + 1, referenced, dryRun)
          ELSE UNION { IF d.threw THEN {d}
                       ELSE ProcessGroups(d, groups, g + 1, referenced, dryRun)
                       : d \in DeleteEntries(counted, selected, 1) }

\* the body of the loop over the technicians, with its catch
ProcessTechnician(s, user, listing, referenced, dryRun) ==
  LET started == [s EXCEPT !.summary.techniciansProcessed = @ + 1]
      failed(t) == [t EXCEPT !.threw = FALSE,
                             !.summary.errors = Append(@, [technicianId |-> user.st_technician_id,
                                                           userUpn |-> user.outlook_upn])]
      current == SelectSeq(listing, LAMBDA appt : appt.id \in s.appts)
      ours == SelectSeq(listNonJobs(current, user.st_technician_id), isOurSyncLikeAppointment)
      scanned == [started EXCEPT !.summary.appointmentsScanned = @ + Len(ours)]
  IN { failed(t) : t \in Faults(started, started) }
     \cup { IF t.threw THEN failed(t) ELSE t
            : t \in ProcessGroups(scanned, groupsOf(ours, {}), 1, referenced, dryRun) }

RECURSIVE ProcessTechnicians(_, _, _, _, _, _)
ProcessTechnicians(s, users, u, listing, referenced, dryRun) ==
  IF u > Len(users) THEN {s}
  ELSE UNION { ProcessTechnicians(t, users, u + 1, listing, referenced, dryRun)
               : t \in ProcessTechnician(s, users[u], listing, referenced, dryRun) }

dedupeNonJobsThisWeekForward(s, techMap, sheet, listing, dryRun) ==
  LET users == SelectSeq(techMap, LAMBDA u : u.enabled /\ u.st_technician_id # 0)
      empty == [ techniciansProcessed |-> 0, appointmentsScanned |-> 0,
                 duplicateGroupsFound |-> 0, appointmentsToDelete |-> 0, deleted |-> 0,
                 errors |-> << >> ]
  IN ProcessTechnicians([s EXCEPT !.summary = empty], users, 1, listing,
                        getReferencedNonJobIdsSet(sheet), dryRun)

\* appointments the cleanup can meet
MaxAppts == 3

ApptIds == 9..(8 + MaxAppts)

Appointments ==
  { [ id |-> id, technicianId |-> v[1], start |-> v[2], duration |-> 1, name |-> v[3],
      allDay |-> FALSE, showOnTechnicianSchedule |-> TRUE, clearDispatchBoard |-> TRUE,
      clearTechnicianView |-> FALSE, removeTechnicianFromCapacityPlanning |-> TRUE,
      active |-> TRUE ]
    : id \in ApptIds, v \in { <<100, 1, "Busy">>, <<100, 2, "Busy">>, <<100, 1, "Visit">>,
                              <<200, 1, "Busy">> } }

Listings ==
  UNION { { l \in [1..n -> Appointments] : \A i, j \in 1..n : l[i].id = l[j].id => i = j }
          : n \in 0..MaxAppts }

\* TechMap rows: one technician per mailbox, or two mailboxes of one technician
CleanupTechMaps ==
  { << [outlook_upn |-> Upn, st_technician_id |-> 100, enabled |-> TRUE],
       [outlook_upn |-> "second@example.com", st_technician_id |-> 200, enabled |-> TRUE],
       [outlook_upn |-> "off@example.com", st_technician_id |-> 300, enabled |-> FALSE] >>,
    << [outlook_upn |-> Upn, st_technician_id |-> 100, enabled |-> TRUE],
       [outlook_upn |-> "second@example.com", st_technician_id |-> 100, enabled |-> TRUE],
       [outlook_upn |-> "new@example.com", st_technician_id |-> 0, enabled |-> TRUE] >> }

CleanupSheets ==
  { << >> } \cup { << Row(Upn, getStableEventKey(normalizeGraphEvent(RawVisit)), << id >>,
                         LegacyHash, Synced("g1")) >> : id \in ApptIds }

CleanupFrozen == UNCHANGED << engineVars, cycle, call, eventMapCache, tasks >>

\* one run of the duplicate cleanup, dry or not (each at most once)
Dedupe ==
  \E dryRun \in BOOLEAN :
    /\ \A k \in 1..Len(reports) : reports[k].dryRun # dryRun
    /\ LET s0 == [ appts |-> { nonJobs[i].id : i \in 1..Len(nonJobs) }, calls |-> << >>,
                   threw |-> FALSE,
                   budget |-> MaxFailures - Cardinality({ k \in 1..Len(reports) :
                                                          reports[k].summary.errors # << >> }),
                   summary |-> << >>, selected |-> {} ]
       IN \E r \in dedupeNonJobsThisWeekForward(s0, cycle.techMap, eventMap, nonJobs, dryRun) :
            /\ nonJobs' = SelectSeq(nonJobs, LAMBDA appt : appt.id \in r.appts)
            /\ reports' = Append(reports, [ dryRun |-> dryRun, summary |-> r.summary,
                                            selected |-> r.selected, calls |-> r.calls,
                                            before |-> nonJobs, after |-> r.appts,
                                            sheet |-> eventMap ])
    /\ CleanupFrozen

CleanupInit ==
  /\ EngineInit
  /\ eventMap \in CleanupSheets
  /\ appts = {}
  /\ \E techMap \in CleanupTechMaps : cycle = [NoCycle EXCEPT !.techMap = techMap]
  /\ call = NoCall
  /\ nonJobs \in Listings
  /\ reports = << >>
  /\ NoTasks

CleanupNext == Dedupe

CleanupSpec == CleanupInit /\ [][CleanupNext]_vars

(* ------------------ services/cleanup.js: the purge --------------------- *)
\* the page size of the purge's listing, scaled down
pageSize == 2

\* if (page > 200) break
PageCap == 200

\* one page of the technician's appointments as ServiceTitan holds them now
listNonJobsPage(listing, technicianId, page, size) ==
  LET all == listNonJobs(listing, technicianId)
      from == (page - 1) * size + 1
      to == IF page * size < Len(all) THEN page * size ELSE Len(all)
  IN IF from > Len(all) THEN << >> ELSE SubSeq(all, from, to)

\* the loop over the appointments of one page
RECURSIVE PurgeEntries(_, _, _, _)
PurgeEntries(s, page, i, dryRun) ==
  IF i > Len(page) THEN {s}
  ELSE IF String(page[i].id) \in s.seenIds THEN PurgeEntries(s, page, i + 1, dryRun)
  ELSE LET counted == [s EXCEPT !.seenIds = @ \cup {String(page[i].id)},
                                !.summary.appointmentsFound = @ + 1,
                                !.summary.appointmentsToDelete = @ + 1]
       IN IF dryRun THEN PurgeEntries(counted, page, i + 1, dryRun)
          ELSE UNION { IF d.threw THEN {d}
                       ELSE PurgeEntries([d EXCEPT !.summary.deleted = @ + 1], page, i + 1, dryRun)
                       : d \in deleteNonJob(counted, page[i].id, "delete", i) }

\* while (true): list a page, delete what it holds, ask for the next page
RECURSIVE PurgePages(_, _, _, _, _)
PurgePages(s, listing, technicianId, page, dryRun) ==
  LET current == SelectSeq(listing, LAMBDA appt : appt.id \in s.appts)
      listed == listNonJobsPage(current, technicianId, page, pageSize)
  IN Faults(s, s)
     \cup IF listed = << >> THEN {s}
          ELSE UNION { IF d.threw \/ Len(listed) < pageSize \/ page + 1 > PageCap THEN {d}
                       ELSE PurgePages(d, listing, technicianId, page + 1, dryRun)
                       : d \in PurgeEntries(s, listed, 1, dryRun) }

\* the body of the loop over the technicians, with its catch
PurgeTechnician(s, user, listing, dryRun) ==
  LET started == [s EXCEPT !.summary.techniciansProcessed = @ + 1, !.seenIds = {}]
  IN { IF t.threw
         THEN [t EXCEPT !.threw = FALSE,
                        !.summary.errors = Append(@, [technicianId |-> user.st_technician_id,
                                                      userUpn |-> user.outlook_upn])]
         ELSE t
       : t \in PurgePages(started, listing, user.st_technician_id, 1, dryRun) }

RECURSIVE PurgeTechnicians(_, _, _, _, _)
PurgeTechnicians(s, users, u, listing, dryRun) ==
  IF u > Len(users) THEN {s}
  ELSE UNION { PurgeTechnicians(t, users, u + 1, listing, dryRun)
               : t \in PurgeTechnician(s, users[u], listing, dryRun) }

purgeNonJobsInWindow(s, techMap, listing, dryRun) ==
  LET users == SelectSeq(techMap, LAMBDA u : u.enabled /\ u.st_technician_id # 0)
      empty == [ techniciansProcessed |-> 0, appointmentsFound |-> 0,
                 appointmentsToDelete |-> 0, deleted |-> 0, errors |-> << >> ]
  IN PurgeTechnicians([s EXCEPT !.summary = empty], users, 1, listing, dryRun)

\* one run of the purge, dry or not (each at most once)
Purge ==
  \E dryRun \in BOOLEAN :
    /\ \A k \in 1..Len(reports) : reports[k].dryRun # dryRun
    /\ LET s0 == [ appts |-> { nonJobs[i].id : i \in 1..Len(nonJobs) }, calls |-> << >>,
                   threw |-> FALSE,
                   budget |-> MaxFailures - Cardinality({ k \in 1..Len(reports) :
                                                          reports[k].summary.errors # << >> }),
                   summary |-> << >>, seenIds |-> {} ]
       IN \E r \in purgeNonJobsInWindow(s0, cycle.techMap, nonJobs, dryRun) :
            /\ nonJobs' = SelectSeq(nonJobs, LAMBDA appt : appt.id \in r.appts)
            /\ reports' = Append(reports, [ dryRun |-> dryRun, summary |-> r.summary,
                                            calls |-> r.calls, before |-> nonJobs,
                                            after |-> r.appts ])
    /\ CleanupFrozen

PurgeNext == Purge

PurgeSpec == CleanupInit /\ [][PurgeNext]_vars

\* resetSyncState: the purge, then the two sheets cleared below their headers
ResetFrozen ==
  UNCHANGED << appts, nextId, pc, deltaState, events, nextDeltaLink, idx, seen, summary, last,
               run, prev, runs, fresh, failures, cycle, call, eventMapCache, tasks >>

\* sheets.clearSheetRange('EventMap!A2:F'), ('DeltaState!A2:E')
clearSheetRange(sheet) == << >>

resetSyncState ==
  \E dryRun \in BOOLEAN :
    /\ \A k \in 1..Len(reports) : reports[k].dryRun # dryRun
    /\ LET s0 == [ appts |-> { nonJobs[i].id : i \in 1..Len(nonJobs) }, calls |-> << >>,
                   threw |-> FALSE,
                   budget |-> MaxFailures - Cardinality({ k \in 1..Len(reports) :
                                                          reports[k].purge.errors # << >> }),
                   summary |-> << >>, seenIds |-> {} ]
       IN \E r \in purgeNonJobsInWindow(s0, cycle.techMap, nonJobs, dryRun) :
            /\ nonJobs' = SelectSeq(nonJobs, LAMBDA appt : appt.id \in r.appts)
            /\ eventMap' = IF dryRun THEN eventMap ELSE clearSheetRange(eventMap)
            /\ deltaSheet' = IF dryRun THEN deltaSheet ELSE clearSheetRange(deltaSheet)
            /\ reports' = Append(reports, [ dryRun |-> dryRun, purge |-> r.summary,
                                            sheetsCleared |-> ~dryRun,
                                            before |-> nonJobs, after |-> r.appts,
                                            rows |-> Len(eventMap) + Len(deltaSheet) ])
    /\ ResetFrozen

ResetInit ==
  /\ eventMap \in CleanupSheets
  /\ deltaSheet \in { << >>, << [outlook_upn |-> Upn, delta_link |-> 1] >> }
  /\ appts = {}
  /\ nextId = FirstFreshId
  /\ pc = "idle"
  /\ deltaState = NoDeltaState
  /\ events = << >>
  /\ nextDeltaLink = 0
  /\ idx = 1
  /\ seen = {}
  /\ summary = createSummary
  /\ last = NoLast
  /\ run = NoRun
  /\ prev = NoPrev
  /\ runs = 0
  /\ fresh = 0
  /\ failures = 0
  /\ \E techMap \in CleanupTechMaps : cycle = [NoCycle EXCEPT !.techMap = techMap]
  /\ call = NoCall
  /\ nonJobs \in Listings
  /\ reports = << >>
  /\ NoTasks

ResetNext == resetSyncState

ResetSpec == ResetInit /\ [][ResetNext]_vars

(* ------------- services/sheets.js: runs that share the sheets ---------- *)
\* events a task processes in all its runs
MaxSteps == 3

Procs == 1..2

Users == << Upn, "second@example.com" >>

SharedEvents == { RawVisit, [RawVisit EXCEPT !.showAs = "Free"], RawTombstone }

\* a row of the sheet without values
BlankRow == Row("", NoMapping.outlook_event_id, << >>, << >>, NoMapping.status)

\* values.update at a row: rows between the data and that row stay blank
updateSheetRange(sheet, rowIndex, rowData, blank) ==
  [ i \in 1..(IF rowIndex - 1 > Len(sheet) THEN rowIndex - 1 ELSE Len(sheet)) |->
      IF i = rowIndex - 1 THEN rowData ELSE IF i <= Len(sheet) THEN sheet[i] ELSE blank ]

\* the successful writes of updateEventMapping, applied to the sheet itself
RECURSIVE ApplyWrites(_, _, _)
ApplyWrites(sheet, writes, i) ==
  IF i > Len(writes) THEN sheet
  ELSE ApplyWrites( IF ~writes[i].ok THEN sheet
                    ELSE IF writes[i].rowIndex # 0
                      THEN updateSheetRange(sheet, writes[i].rowIndex, writes[i].row, BlankRow)
                      ELSE Append(sheet, writes[i].row),
                    writes, i + 1 )

\* what findEventMapping works on: the cached rows while the cache is loaded
\* and young, the rows it reads and caches otherwise
CachedRows(cache, sheet) == IF cache.loaded THEN cache.rows ELSE sheet

\* the engine on the rows given to its lookups
OnRows(rows, ids, next) ==
  [ appts |-> ids, nextId |-> next, sheet |-> rows, calls |-> << >>, writes |-> << >>,
    threw |-> FALSE, ret |-> << >>, budget |-> 0, outcome |-> "" ]

SharedFrozen ==
  UNCHANGED << pc, deltaState, events, nextDeltaLink, idx, seen, summary, last, run, prev,
               runs, fresh, failures, cycle, call, nonJobs, reports >>

\* runDeltaSyncForUser reads the user's cursor row
BeginRun(t) ==
  /\ tasks[t].pc = "idle"
  /\ tasks[t].begun < MaxRuns
  /\ tasks' = [tasks EXCEPT ![t].pc = "running",
                            ![t].begun = @ + 1,
                            ![t].deltaRow = getDeltaState(deltaSheet, tasks[t].user).rowIndex]
  /\ UNCHANGED << eventMap, deltaSheet, appts, nextId, eventMapCache >>
  /\ SharedFrozen

\* processNormalizedEvent on one event of the task's user: lookups go to the
\* process's cache, writes to the sheet and then to the cache
ProcessOne(t) ==
  /\ tasks[t].pc = "running"
  /\ tasks[t].done < MaxSteps
  /\ \E raw \in SharedEvents :
       LET rows == CachedRows(eventMapCache[tasks[t].proc], eventMap)
       IN \E r \in processNormalizedEvent(OnRows(rows, appts, nextId), tasks[t].user,
                                          normalizeGraphEvent(raw)) :
            /\ eventMap' = ApplyWrites(eventMap, r.writes, 1)
            /\ eventMapCache' = [eventMapCache EXCEPT ![tasks[t].proc] =
                                   [rows |-> r.sheet, loaded |-> TRUE]]
            /\ appts' = r.appts
            /\ nextId' = r.nextId
  /\ tasks' = [tasks EXCEPT ![t].done = @ + 1]
  /\ UNCHANGED deltaSheet
  /\ SharedFrozen

\* the run ends: updateDeltaState at the row read when it began
EndRun(t) ==
  /\ tasks[t].pc = "running"
  /\ LET rowData == [outlook_upn |-> tasks[t].user, delta_link |-> tasks[t].done + 1]
     IN deltaSheet' = IF tasks[t].deltaRow # 0
                        THEN updateSheetRange(deltaSheet, tasks[t].deltaRow, rowData,
                                              [outlook_upn |-> "", delta_link |-> 0])
                        ELSE Append(deltaSheet, rowData)
  /\ tasks' = [tasks EXCEPT ![t].pc = "idle"]
  /\ UNCHANGED << eventMap, appts, nextId, eventMapCache >>
  /\ SharedFrozen

\* more than CACHE_TTL_MS pass without a write: the next lookup reads the sheet
CacheExpires(p) ==
  /\ eventMapCache[p].loaded
  /\ eventMapCache' = [eventMapCache EXCEPT ![p] = [rows |-> << >>, loaded |-> FALSE]]
  /\ UNCHANGED << eventMap, deltaSheet, appts, nextId, tasks >>
  /\ SharedFrozen

\* both sheets lose their data rows; the cache is left as it is
clearSyncSheets ==
  /\ eventMap # << >> \/ deltaSheet # << >>
  /\ eventMap' = << >>
  /\ deltaSheet' = << >>
  /\ UNCHANGED << appts, nextId, eventMapCache, tasks >>
  /\ SharedFrozen

\* two runs, one per user, in one process or in two
ConcurrentInit ==
  /\ EngineInit
  /\ eventMap = << >>
  /\ appts = {}
  /\ cycle = NoCycle
  /\ call = NoCall
  /\ nonJobs = << >>
  /\ reports = << >>
  /\ eventMapCache = [p \in Procs |-> [rows |-> << >>, loaded |-> FALSE]]
  /\ \E q \in Procs :
       tasks = [t \in 1..2 |-> [ proc |-> IF t = 1 THEN 1 ELSE q, user |-> Users[t],
                                 pc |-> "idle", begun |-> 0, deltaRow |-> 0, done |-> 0 ]]

ConcurrentNext ==
  \/ \E t \in 1..2 : BeginRun(t)
  \/ \E t \in 1..2 : ProcessOne(t)
  \/ \E t \in 1..2 : EndRun(t)
  \/ \E p \in Procs : CacheExpires(p)

ConcurrentSpec == ConcurrentInit /\ [][ConcurrentNext]_vars

\* one process, its runs and the maintenance call that clears the sheets
CacheInit == ConcurrentInit /\ tasks[2].proc = 1

CacheNext == ConcurrentNext \/ clearSyncSheets

CacheSpec == CacheInit /\ [][CacheNext]_vars

(* --------------------- the helpers called on their own ----------------- *)
\* days the instants given to a helper are taken from
MaxDays == 3

Instants == 0..(MaxDays * DayLen - 1)

Subjects == {"", "Visit", "Busy", "Confidential"}

\* normalized events as processNormalizedEvent hands them to the mapper
MapperEvents ==
  [ subject : Subjects, isPrivate : BOOLEAN, showAs : {"busy", "oof"}, isAllDay : BOOLEAN,
    start : Instants, end : Instants ]

CallFrozen == UNCHANGED << engineVars, cycle, nonJobs, reports, eventMapCache, tasks >>

\* splitMultiDayEvent(startISO, endISO)
Split ==
  /\ call.fn = "splitMultiDayEvent"
  /\ ~call.done
  /\ call' = [call EXCEPT !.done = TRUE,
                          !.result = splitMultiDayEvent(call.args.startISO, call.args.endISO)]
  /\ CallFrozen

\* mapEventToServiceTitanPayloads(event, userConfig)
MapPayloads ==
  /\ call.fn = "mapEventToServiceTitanPayloads"
  /\ ~call.done
  /\ call' = [call EXCEPT !.done = TRUE, !.result = mapEventToServiceTitanPayloads(call.args)]
  /\ CallFrozen

CallInit ==
  /\ EngineInit
  /\ eventMap = << >>
  /\ appts = {}
  /\ cycle = NoCycle
  /\ nonJobs = << >>
  /\ reports = << >>
  /\ NoTasks
  /\ \/ \E startISO, endISO \in Instants :
          call = [NoCall EXCEPT !.fn = "splitMultiDayEvent",
                                !.args = [startISO |-> startISO, endISO |-> endISO]]
     \/ \E event \in MapperEvents :
          call = [NoCall EXCEPT !.fn = "mapEventToServiceTitanPayloads", !.args = event]

CallNext == Split \/ MapPayloads

CallSpec == CallInit /\ [][CallNext]_vars

(* ------------------------- the retry wrappers -------------------------- *)
\* maxAttempts of stApiRequest and of the Sheets withRetry
stMaxAttempts == 4

sheetsMaxAttempts == 6

\* what one fetch of stApiRequest can give: the HTTP status, 0 when fetch throws
StResponses == {200, 204, 400, 404, 429, 500, 0}

\* what one call of fn can throw inside withRetry: the numeric code of the
\* error (0 when it has none, as a network error with code 'ECONNRESET') and
\* its message, or nothing
SheetsResults ==
  { [ok |-> TRUE, code |-> 0, message |-> ""],
    [ok |-> FALSE, code |-> 429, message |-> "too many requests"],
    [ok |-> FALSE, code |-> 503, message |-> "unavailable"],
    [ok |-> FALSE, code |-> 400, message |-> "bad request"],
    [ok |-> FALSE, code |-> 403, message |-> "rate limit exceeded"],
    [ok |-> FALSE, code |-> 0, message |-> "socket hang up"] }

isRetryableSheetsError(error) ==
  \/ error.code = 429
  \/ error.code >= 500 /\ error.code <= 599
  \/ error.message = "rate limit exceeded"

RetryFrozen == UNCHANGED << engineVars, cycle, nonJobs, reports, eventMapCache, tasks >>

\* one pass of the for loop of stApiRequest; call.args is the list of the
\* responses so far, its length the attempt
StAttempt ==
  /\ call.fn = "stApiRequest"
  /\ ~call.done
  /\ \E status \in StResponses :
       LET attempt == Len(call.args) + 1
           retryable == status = 429 \/ status >= 500
           isNetworkError == status = 0 \/ retryable
       IN call' = [call EXCEPT
                     !.args = Append(@, status),
                     !.done = IF status = 200 \/ status = 204 THEN TRUE
                              ELSE ~(isNetworkError /\ attempt < stMaxAttempts),
                     !.result = IF status = 200 \/ status = 204 THEN "returned" ELSE "thrown"]
  /\ RetryFrozen

\* one pass of the for loop of withRetry; call.args is the list of what fn
\* gave so far
SheetsAttempt ==
  /\ call.fn = "withRetry"
  /\ ~call.done
  /\ \E outcome \in SheetsResults :
       LET attempt == Len(call.args) + 1
       IN call' = [call EXCEPT
                     !.args = Append(@, outcome),
                     !.done = IF outcome.ok THEN TRUE
                              ELSE ~isRetryableSheetsError(outcome) \/ attempt = sheetsMaxAttempts,
                     !.result = IF outcome.ok THEN "returned" ELSE "thrown"]
  /\ RetryFrozen

RetryInit ==
  /\ EngineInit
  /\ eventMap = << >>
  /\ appts = {}
  /\ cycle = NoCycle
  /\ nonJobs = << >>
  /\ reports = << >>
  /\ NoTasks
  /\ \E fn \in {"stApiRequest", "withRetry"} : call = [NoCall EXCEPT !.fn = fn, !.result = ""]

RetryNext == StAttempt \/ SheetsAttempt

RetrySpec == RetryInit /\ [][RetryNext]_vars

(* ------------ sync.js: processUserEvents on a fetched batch ------------ *)
\* the availability tags an event can carry
ShowAsTags == {"Busy", "Oof", "Free", "Tentative", "workingElsewhere"}

\* the occurrence with each tag, without its start or its end, without a
\* provider id, marked private under two subjects, and its tombstone
FetchedEvents ==
  { [RawVisit EXCEPT !.showAs = tag] : tag \in ShowAsTags }
  \cup { [RawVisit EXCEPT !.end = NoDate],
         [RawVisit EXCEPT !.start = NoDate],
         [RawVisit EXCEPT !.showAs = "Free", !.end = NoDate],
         [RawVisit EXCEPT !.id = ""],
         [RawVisit EXCEPT !.sensitivity = "Private"],
         [RawVisit EXCEPT !.sensitivity = "Private", !.subject = "Confidential"],
         RawTombstone }

\* the row an earlier run wrote for the occurrence
SyncedSheet ==
  << Row(Upn, getStableEventKey(normalizeGraphEvent(RawVisit)), << 1 >>,
         getEventDedupeKey(normalizeGraphEvent(RawVisit)), Synced(RawVisit.id)) >>

StoredSheets == { << >>, LegacySheet, SyncedSheet }

\* runDeltaSyncForUser has fetched a batch and is about to walk it
EventInit ==
  /\ eventMap \in StoredSheets
  /\ deltaSheet = << >>
  /\ appts \in InitAppts(eventMap)
  /\ nextId = FirstFreshId
  /\ pc = "walk"
  /\ deltaState = NoDeltaState
  /\ events \in UNION { [1..k -> FetchedEvents] : k \in 1..MaxBatch }
  /\ nextDeltaLink = 1
  /\ idx = 1
  /\ seen = {}
  /\ summary = [createSummary EXCEPT !.calendarsProcessed = 1, !.eventsFetched = Len(events)]
  /\ last = NoLast
  /\ run = NoRun
  /\ prev = NoPrev
  /\ runs = 1
  /\ fresh = Len(events)
  /\ failures = 0
  /\ SideIdle

EventNext == ProcessEvent

EventSpec == EventInit /\ [][EventNext]_vars

(* ------------------- sync.js: the full-window backfills ---------------- *)
\* graph.getCalendarWindowEvents(userUpn, 30, 0) / (userUpn, 0, 90): the full
\* pull of the window, events met before included
WindowBatches ==
  Batches(IF MaxFresh - fresh < MaxBatch THEN MaxFresh - fresh ELSE MaxBatch)
  \cup IF prev.end # "none" THEN { prev.events } ELSE {}

\* runBackfill...ForUser up to the call of processUserEvents
StartBackfill ==
  \E batch \in WindowBatches :
    /\ pc = "idle"
    /\ runs < MaxRuns
    /\ events' = batch
    /\ summary' = [createSummary EXCEPT !.calendarsProcessed = 1, !.eventsFetched = Len(batch)]
    /\ runs' = runs + 1
    /\ fresh' = IF prev.end # "none" /\ batch = prev.events THEN fresh ELSE fresh + Len(batch)
    /\ idx' = 1
    /\ seen' = {}
    /\ run' = NoRun
    /\ last' = NoLast
    /\ pc' = "walk"
    /\ UNCHANGED << eventMap, deltaSheet, appts, nextId, deltaState, nextDeltaLink, prev,
                    failures, sideVars >>

\* getCalendarWindowEvents throws: the run ends with the exception
BackfillFetchFails ==
  /\ pc = "idle"
  /\ runs < MaxRuns
  /\ failures < MaxFailures
  /\ prev' = [prev EXCEPT !.end = "fetchThrew", !.clean = FALSE, !.errors = 0, !.walked = 0,
                          !.fetchError = "other"]
  /\ runs' = runs + 1
  /\ failures' = failures + 1
  /\ UNCHANGED << eventMap, deltaSheet, appts, nextId, pc, deltaState, events, nextDeltaLink,
                  idx, seen, summary, last, run, fresh, sideVars >>

\* variant: the backfill stores a cursor as the delta run does
BackfillReturnPersistingCursor ==
  /\ pc = "walk"
  /\ idx > Len(normalizedEvents)
  /\ deltaSheet' = updateDeltaState(deltaSheet, Upn, runs + 1,
                                    getDeltaState(deltaSheet, Upn).rowIndex)
  /\ Ended("returned")
  /\ UNCHANGED << eventMap, appts, nextId, runs, fresh, failures >>

\* the end of runBackfill...ForUser: the batch is walked, the summary returned
BackfillReturn ==
  /\ pc = "walk"
  /\ idx > Len(normalizedEvents)
  /\ Ended("returned")
  /\ UNCHANGED << eventMap, deltaSheet, appts, nextId, runs, fresh, failures >>

\* the cursor table as delta runs of this and of another user left it
BackfillInit ==
  /\ eventMap \in StoredSheets
  /\ deltaSheet \in { << >>, << [outlook_upn |-> Upn, delta_link |-> 1] >>,
                      << [outlook_upn |-> "second@example.com", delta_link |-> 1],
                         [outlook_upn |-> Upn, delta_link |-> 1] >> }
  /\ appts \in InitAppts(eventMap)
  /\ nextId = FirstFreshId
  /\ pc = "idle"
  /\ deltaState = NoDeltaState
  /\ events = << >>
  /\ nextDeltaLink = 0
  /\ idx = 1
  /\ seen = {}
  /\ summary = createSummary
  /\ last = NoLast
  /\ run = NoRun
  /\ prev = NoPrev
  /\ runs = 0
  /\ fresh = 0
  /\ failures = 0
  /\ SideIdle

BackfillNext == StartBackfill \/ BackfillFetchFails \/ ProcessEvent \/ BackfillReturn

BackfillSpec == BackfillInit /\ [][BackfillNext]_vars

(* ------------- sync.js: runs of one user that interleave --------------- *)
\* Several invocations of runDeltaSyncForUser for the same user in one
\* process; each is at one of its await points. The lookups see every write
\* made so far (one process keeps one cache, warmed by each write).
\* tasks[t]: pc, the event fetched, the cursor row and link read, the mapping
\* found, the ids the upsert returned.
RaceVersions == { RawVisit, [RawVisit EXCEPT !.lastModifiedDateTime = 2] }

RaceFrozen ==
  UNCHANGED << pc, deltaState, events, nextDeltaLink, idx, seen, summary, last, run, prev,
               fresh, failures, cycle, call, nonJobs, reports, eventMapCache >>

RaceEvent(t) == normalizeGraphEvent(tasks[t].event)

\* getDeltaState and getDeltaEvents: the row of the cursor and the batch; a
\* later fetch sees a later version of the event and gets a later link
RaceFetch(t) ==
  /\ tasks[t].pc = "idle"
  /\ \E raw \in RaceVersions :
       /\ \A u \in 1..Len(tasks) :
            tasks[u].pc # "idle" => tasks[u].event.lastModifiedDateTime <= raw.lastModifiedDateTime
       /\ tasks' = [tasks EXCEPT ![t].pc = "lookup",
                                 ![t].event = raw,
                                 ![t].deltaRow = getDeltaState(deltaSheet, Upn).rowIndex,
                                 ![t].link = runs + 1]
  /\ runs' = runs + 1
  /\ UNCHANGED << eventMap, deltaSheet, appts, nextId >>
  /\ RaceFrozen

\* variant: the mapping is looked up anew by the step that uses it
FoundAtUse(t) == findEventMapping(eventMap, Upn, getStableEventKey(RaceEvent(t)))

\* the mapping the run holds since its lookup
Found(t) == tasks[t].existing

\* findEventMapping, then the comparison of the hash
RaceLookup(t) ==
  /\ tasks[t].pc = "lookup"
  /\ LET existingMapping == findEventMapping(eventMap, Upn, getStableEventKey(RaceEvent(t)))
     IN tasks' = [tasks EXCEPT
                    ![t].existing = existingMapping,
                    ![t].pc = IF existingMapping.rowIndex # 0
                                 /\ existingMapping.last_hash = getEventDedupeKey(RaceEvent(t))
                               THEN "cursor" ELSE "upsert"]
  /\ UNCHANGED << eventMap, deltaSheet, appts, nextId, runs >>
  /\ RaceFrozen

\* the test of the hash and upsertServiceTitanAppointments, on the mapping
\* the run holds
RaceUpsert(t) ==
  /\ tasks[t].pc = "upsert"
  /\ IF Found(t).rowIndex # 0 /\ Found(t).last_hash = getEventDedupeKey(RaceEvent(t))
       THEN /\ tasks' = [tasks EXCEPT ![t].pc = "cursor"]
            /\ UNCHANGED << appts, nextId >>
       ELSE \E r \in upsertServiceTitanAppointments(OnRows(eventMap, appts, nextId),
                                                    RaceEvent(t), Found(t)) :
              /\ appts' = r.appts
              /\ nextId' = r.nextId
              /\ tasks' = [tasks EXCEPT ![t].pc = "write", ![t].ids = r.ret]
  /\ UNCHANGED << eventMap, deltaSheet, runs >>
  /\ RaceFrozen

\* updateEventMapping at the row index of the mapping found, or appended
RaceWrite(t) ==
  /\ tasks[t].pc = "write"
  /\ \E w \in updateEventMapping(OnRows(eventMap, appts, nextId), Upn,
                                  getStableEventKey(RaceEvent(t)), tasks[t].ids,
                                  getEventDedupeKey(RaceEvent(t)), Synced(RaceEvent(t).id),
                                  Found(t).rowIndex) :
       eventMap' = w.sheet
  /\ tasks' = [tasks EXCEPT ![t].pc = "cursor"]
  /\ UNCHANGED << deltaSheet, appts, nextId, runs >>
  /\ RaceFrozen

\* updateDeltaState at the row read when the run began, or appended
RaceCursor(t) ==
  /\ tasks[t].pc = "cursor"
  /\ deltaSheet' = updateDeltaState(deltaSheet, Upn, tasks[t].link, tasks[t].deltaRow)
  /\ tasks' = [tasks EXCEPT ![t].pc = "done"]
  /\ UNCHANGED << eventMap, appts, nextId, runs >>
  /\ RaceFrozen

\* the sheets before the runs: no row, or the rows of an earlier run
RaceInit ==
  /\ eventMap \in { << >>, SyncedSheet }
  /\ deltaSheet \in { << >>, << [outlook_upn |-> Upn, delta_link |-> 1] >> }
  /\ appts \in InitAppts(eventMap)
  /\ nextId = FirstFreshId
  /\ pc = "idle"
  /\ deltaState = NoDeltaState
  /\ events = << >>
  /\ nextDeltaLink = 0
  /\ idx = 1
  /\ seen = {}
  /\ summary = createSummary
  /\ last = NoLast
  /\ run = NoRun
  /\ prev = NoPrev
  /\ runs = 1
  /\ fresh = 0
  /\ failures = 0
  /\ cycle = NoCycle
  /\ call = NoCall
  /\ nonJobs = << >>
  /\ reports = << >>
  /\ eventMapCache = << >>
  /\ tasks = [ t \in 1..MaxRuns |->
                [ pc |-> "idle", event |-> RawVisit, deltaRow |-> 0, link |-> 0,
                  existing |-> NoMapping, ids |-> << >> ] ]

RaceNext ==
  \E t \in 1..Len(tasks) :
    RaceFetch(t) \/ RaceLookup(t) \/ RaceUpsert(t) \/ RaceWrite(t) \/ RaceCursor(t)

RaceSpec == RaceInit /\ [][RaceNext]_vars

(* ------------------------------ properties ----------------------------- *)
Processed == last.kind = "processed"

Calls == last.calls

CallIdx == 1..Len(last.calls)

AllCallsOk == \A j \in CallIdx : Calls[j].ok

\* the upsert path was taken for the last event
Upserting == Processed /\ \E j \in CallIdx : Calls[j].op \in {"update", "create"}

PreviousIds == last.existing.st_nonjob_ids_json

WriteFailed == \E k \in 1..Len(last.writes) : ~last.writes[k].ok

Targeted(op, id) == \E j \in CallIdx : Calls[j].op = op /\ Calls[j].id = id

RowAt(rowIndex) == eventMap[rowIndex - 1]

BlockCount(key) == Len(splitMultiDayEvent(key[2], key[3]))

\* C1: whenever a run has stored a new cursor, no event of its batch was left
\* unreconciled (recorded in summary.errors only).
CursorOnlyAfterBatchReconciled ==
  (prev.end = "returned" /\ Cursor # prev.cursor) => prev.errors = 0

\* C2: the cursor is written only after the last event of the batch has been
\* walked; during the walk, and after a run that crashed or ended by an
\* exception, the stored cursor is the one the run started with.
CursorWrittenAfterWalk ==
  /\ pc = "walk" => Cursor = run.cursor
  /\ prev.end \in {"crashed", "threw"} => Cursor = prev.cursor
  /\ (prev.end # "none" /\ Cursor # prev.cursor) =>
        (prev.end = "returned" /\ prev.walked = Len(prev.events))

CrashedMidBatch ==
  /\ prev.end = "crashed"
  /\ prev.walked >= 1
  /\ prev.walked < Len(prev.events)
  /\ Len(eventMap) > 0
  /\ Cursor = prev.cursor

\* C3: a second run on the same unchanged batch after a failure-free first
\* run makes no ServiceTitan call.
RerunMakesNoDownstreamCall ==
  (run.rerun /\ prev.clean) => run.calls = 0

\* C4: a tombstone whose mapping exists has a delete issued for every id of
\* the mapping, and leaves the row DELETED with an empty id list.
TombstoneDeletesMapping ==
  (Processed /\ last.event.isRemoved /\ last.byGid.rowIndex # 0) =>
     /\ \A i \in 1..Len(last.byGid.st_nonjob_ids_json) :
          Targeted("delete", last.byGid.st_nonjob_ids_json[i])
     /\ RowAt(last.byGid.rowIndex).status = Deleted
     /\ RowAt(last.byGid.rowIndex).st_nonjob_ids_json = << >>

\* C5: a synced event now fetched as free/available has every id of its
\* mapping deleted and the mapping cleared, and nothing created or updated.
FreeEventClearsMapping ==
  ( /\ Processed /\ ~last.event.isRemoved
    /\ last.event.start # NoTime /\ last.event.end # NoTime
    /\ isAvailabilityEvent(last.event.showAs)
    /\ last.existing.rowIndex # 0 /\ PreviousIds # << >> ) =>
     /\ \A i \in 1..Len(PreviousIds) : Targeted("delete", PreviousIds[i])
     /\ RowAt(last.existing.rowIndex).status = Deleted
     /\ RowAt(last.existing.rowIndex).st_nonjob_ids_json = << >>
     /\ ~Upserting

\* C6: every row written by a successful upsert has one id per day block of
\* the event, the id at position i being the appointment that was updated or
\* created for block i.
IdListMatchesBlocks ==
  /\ \A r \in 1..Len(eventMap) :
       eventMap[r].status.gid # "" =>
         Len(eventMap[r].st_nonjob_ids_json) = BlockCount(eventMap[r].outlook_event_id)
  /\ (Processed /\ last.outcome = "upserted") =>
       LET row == last.writes[1].row
           ids == row.st_nonjob_ids_json
       IN /\ Len(ids) = last.blocks
          /\ findEventMapping(eventMap, Upn, row.outlook_event_id).st_nonjob_ids_json = ids
          /\ \A i \in 1..Len(ids) :
               \E j \in CallIdx : /\ Calls[j].ok /\ Calls[j].pos = i /\ Calls[j].id = ids[i]
                                  /\ Calls[j].op \in {"update", "create"}
          /\ \A i, k \in 1..Len(ids) : ids[i] = ids[k] => i = k

MultiBlockRowWritten ==
  /\ Processed /\ last.outcome = "upserted" /\ last.blocks = 2
  /\ \E r \in 1..Len(eventMap) :
       eventMap[r].status.gid # "" /\ Len(eventMap[r].st_nonjob_ids_json) = 2

\* C7: a re-sync of an event with M mapped ids and N blocks in which every
\* call succeeds updates positions below min(M,N) in place, creates positions
\* M..N-1, deletes the ids of positions N..M-1, and writes exactly N ids.
ResyncReusesPositions ==
  (Processed /\ last.outcome = "upserted" /\ AllCallsOk) =>
     LET M == Len(PreviousIds)
         N == last.blocks
         ids == last.writes[1].row.st_nonjob_ids_json
     IN /\ Len(Calls) = (IF M > N THEN M ELSE N)
        /\ \A i \in CallIdx :
             /\ Calls[i].pos = i
             /\ Calls[i].op = (IF i > N THEN "delete" ELSE IF i <= M THEN "update" ELSE "create")
             /\ i <= M => Calls[i].id = PreviousIds[i]
             /\ i <= N => ids[i] = Calls[i].id
             /\ (i > M => Calls[i].id \notin IdsOf(<< last.existing >>))
        /\ Len(ids) = N
        /\ findEventMapping(eventMap, Upn, getStableEventKey(last.event)).st_nonjob_ids_json = ids

ShrinkFromThreeToOne ==
  /\ Processed /\ last.outcome = "upserted" /\ AllCallsOk
  /\ Len(PreviousIds) = 3 /\ last.blocks = 1
  /\ Len(Calls) = 3

\* C8: when the update of the previous id at position i fails, a replacement
\* is created at that position, the replacement id is what the id list holds
\* at position i, a delete of the stale id is attempted, and a failure of that
\* delete does not fail the event.
FailedUpdateFallsBackToCreate ==
  \A j \in CallIdx :
    (Calls[j].op = "update" /\ ~Calls[j].ok) =>
      /\ j + 1 \in CallIdx
      /\ Calls[j + 1].op = "create" /\ Calls[j + 1].pos = Calls[j].pos
      /\ Calls[j + 1].ok =>
           /\ j + 2 \in CallIdx
           /\ Calls[j + 2].op = "delete" /\ Calls[j + 2].id = Calls[j].id
           /\ Calls[j + 2].pos = Calls[j].pos
           /\ last.writes # << >> =>
                last.writes[1].row.st_nonjob_ids_json[Calls[j].pos] = Calls[j + 1].id
           /\ (~Calls[j + 2].ok /\ last.outcome = "threw") =>
                (WriteFailed \/ \E k \in CallIdx : k > j + 2 /\ ~Calls[k].ok)

StaleDeleteFailureSwallowed ==
  /\ Processed /\ last.outcome = "upserted"
  /\ \E j \in CallIdx :
       /\ Calls[j].op = "update" /\ ~Calls[j].ok
       /\ j + 2 \in CallIdx
       /\ Calls[j + 1].op = "create" /\ Calls[j + 1].ok
       /\ Calls[j + 2].op = "delete" /\ ~Calls[j + 2].ok
       /\ last.writes[1].row.st_nonjob_ids_json[Calls[j].pos] = Calls[j + 1].id

\* C9: in an upsert, a failed downstream call at one position aborts neither
\* the other positions nor the write of the mapping row.
PositionFailureDoesNotAbort ==
  (Upserting /\ ~AllCallsOk) =>
     /\ \A i \in 1..last.blocks :
          \E j \in CallIdx : Calls[j].pos = i /\ Calls[j].op \in {"update", "create"}
     /\ \A i \in 1..Len(PreviousIds) :
          i > last.blocks => Targeted("delete", PreviousIds[i])
     /\ last.writes # << >>

\* C10: when the write of the mapping row fails after an upsert, every
\* appointment created during that upsert is targeted by a rollback delete
\* and the error propagates, with or without a previous mapping.
FailedWriteRollsBackCreated ==
  (Upserting /\ WriteFailed) =>
     /\ last.outcome = "threw"
     /\ \A j \in CallIdx :
          (Calls[j].op = "create" /\ Calls[j].ok) => Targeted("rollback", Calls[j].id)

\* C11: an exception of one event is caught and appended to summary.errors
\* with the user, the event id and the message; every event of the batch is
\* walked and counted once whatever failed before it, and a failing event
\* never makes the walk end early.
EventErrorIsCaught ==
  /\ (Processed /\ last.outcome = "threw") =>
       /\ summary.errors # << >>
       /\ summary.errors[Len(summary.errors)] =
            [ userUpn |-> Upn, eventId |-> last.event.id,
              message |-> IF WriteFailed THEN "updateEventMapping" ELSE Calls[Len(Calls)].op ]
  /\ pc = "walk" =>
       /\ Len(summary.errors) + summary.eventsSkipped + summary.eventsUpserted = idx - 1
       /\ \A k \in 1..Len(summary.errors) :
            \E i \in 1..(idx - 1) : normalizedEvents[i].id = summary.errors[k].eventId
  /\ prev.end \in {"returned", "threw"} => prev.walked = Len(prev.events)

EventProcessedAfterError ==
  /\ pc = "walk" /\ Processed
  /\ Len(summary.errors) = 1
  /\ summary.errors[1].eventId # last.event.id
  /\ last.outcome = "upserted"

\* C12: a delta fetch that fails because the stored cursor was invalidated is
\* retried with a full-window fetch and the run goes on, so the run never
\* ends with that error; a run ended by any other fetch error has left the
\* cursor as it was.
InvalidCursorFetchFallsBack ==
  prev.end = "fetchThrew" =>
     /\ prev.fetchError # "ResyncRequired"
     /\ Cursor = prev.cursor

\* C13: when the run of one user throws in a sweep, the error is recorded in
\* the sweep summary with that user, and every other enabled user is still
\* processed: a finished sweep has visited all enabled users in order.
SweepSurvivesUserFailure ==
  /\ cycle.pc # "idle" =>
       /\ Len(cycle.visited) = cycle.index - 1
       /\ \A i \in 1..Len(cycle.visited) :
            /\ cycle.visited[i].userUpn = cycle.enabledUsers[i].outlook_upn
            /\ cycle.visited[i].threw =>
                 \E k \in 1..Len(cycle.summary.errors) :
                   /\ cycle.summary.errors[k].userUpn = cycle.visited[i].userUpn
                   /\ DOMAIN cycle.summary.errors[k] = {"userUpn", "message"}
       /\ cycle.summary.calendarsProcessed =
            Cardinality({ i \in 1..Len(cycle.visited) : ~cycle.visited[i].threw })
  /\ cycle.pc = "done" =>
       /\ Len(cycle.visited) = Len(cycle.enabledUsers)
       /\ cycle.enabledUsers = enabledUsers(cycle.techMap)

UserProcessedAfterFailedUser ==
  /\ cycle.pc = "done"
  /\ Len(cycle.visited) = 2
  /\ cycle.visited[1].threw /\ ~cycle.visited[2].threw
  /\ cycle.summary.eventsUpserted = 1
  /\ Len(cycle.summary.errors) = 1

\* keys of the entries of the batch walked before position i
KeysBefore(i) == { getEventDedupeKey(normalizedEvents[k]) : k \in 1..(i - 1) }

\* C14: of the entries of one batch that share a dedupe key only the first
\* goes through the state machine; the iteration of each later one adds one
\* to eventsSkipped and touches neither the mapping store nor ServiceTitan.
DuplicatesAreSkippedOnce ==
  /\ [] ( (pc = "walk" /\ last.kind # "none") =>
            /\ seen = KeysBefore(idx)
            /\ last.kind = "duplicate" <=> getEventDedupeKey(last.event) \in KeysBefore(idx - 1)
            /\ last.kind = "duplicate" =>
                 last.calls = << >> /\ last.writes = << >> /\ last.existing = NoMapping )
  /\ [][ ( /\ pc = "walk" /\ idx <= Len(normalizedEvents) /\ idx' = idx + 1
           /\ getEventDedupeKey(normalizedEvents[idx]) \in KeysBefore(idx) ) =>
         ( /\ eventMap' = eventMap /\ appts' = appts /\ nextId' = nextId
           /\ run'.calls = run.calls
           /\ summary' = [summary EXCEPT !.eventsSkipped = @ + 1] ) ]_vars

DuplicateSkipped ==
  /\ pc = "walk" /\ last.kind = "duplicate"
  /\ summary.eventsUpserted = 1 /\ summary.eventsSkipped = 1
  /\ Len(eventMap) > 0

Mapped == call.fn = "mapEventToServiceTitanPayloads" /\ call.done

\* C15: every payload of a private event is named 'Busy', whatever its
\* subject; the subject is never copied.
PrivateEventsAreMasked ==
  (Mapped /\ call.args.isPrivate) =>
     /\ getMaskedSubject(call.args) = "Busy"
     /\ \A i \in 1..Len(call.result) :
          /\ call.result[i].name = "Busy"
          /\ call.args.subject # "Busy" => call.result[i].name # call.args.subject

PrivateEventMapped ==
  /\ Mapped /\ call.args.isPrivate
  /\ call.args.subject = "Confidential"
  /\ Len(call.result) = 2

SplitDone == call.fn = "splitMultiDayEvent" /\ call.done

SplitStartDay == LocalDay(ToLocal(call.args.startISO))

SplitEndDay == LocalDay(ToLocal(call.args.endISO))

\* C16: an interval whose start and end fall on N different local days is
\* split into exactly N ordered blocks, each within one local day, each
\* ending where the next starts, from the start to the end of the interval.
SplitCoversInterval ==
  (SplitDone /\ call.args.startISO <= call.args.endISO) =>
     LET blocks == call.result
         N == SplitEndDay - SplitStartDay + 1
     IN /\ Len(blocks) = N
        /\ blocks[1].start = call.args.startISO
        /\ blocks[N].end = call.args.endISO
        /\ \A i \in 1..N :
             /\ blocks[i].start <= blocks[i].end
             /\ LocalDay(ToLocal(blocks[i].start)) = LocalDay(ToLocal(blocks[i].end))
        /\ \A i \in 1..(N - 1) : blocks[i].end = blocks[i + 1].start

\* C17: an interval whose start and end fall on the same local day gives
\* exactly one block, with the instants of the input.
SameDayGivesOneBlock ==
  (SplitDone /\ SplitStartDay = SplitEndDay) =>
     call.result = << [start |-> call.args.startISO, end |-> call.args.endISO] >>

SameDaySplit ==
  /\ SplitDone /\ SplitStartDay = SplitEndDay
  /\ call.args.startISO < call.args.endISO
  /\ LocalDay(call.args.startISO) # LocalDay(call.args.endISO)

\* C18: the splitter never returns an empty sequence, also for an end equal
\* to the start or on an earlier local day; a zero-duration input gives
\* exactly one block.
SplitIsNeverEmpty ==
  SplitDone =>
     /\ call.result # << >>
     /\ call.args.startISO = call.args.endISO => Len(call.result) = 1

\* ---- the duplicate cleanup ----
\* the ids of a set of appointments
Ids(G) == { a.id : a \in G }

\* the groups a technician's listed appointments fall into, as sets
GroupsIn(listing, technicianId) ==
  LET ours == { a \in { listing[i] : i \in 1..Len(listing) } :
                  a.technicianId = technicianId /\ isOurSyncLikeAppointment(a) }
  IN { { a \in ours : makeSignature(a) = makeSignature(b) } : b \in ours }

\* the members the rule gives up: the unreferenced ones of a group with a
\* referenced member, all but the lowest-sorting id of a group without
Expected(G, sheet) ==
  LET ref == { id \in Ids(G) : id \in IdsOf(sheet) }
      lowest == CHOOSE id \in Ids(G) :
                  \A other \in Ids(G) \ {id} : sortsBefore(String(id), String(other))
  IN IF ref # {} THEN Ids(G) \ ref ELSE Ids(G) \ {lowest}

Technicians(techMap) ==
  { techMap[u].st_technician_id : u \in { v \in 1..Len(techMap) :
      techMap[v].enabled /\ techMap[v].st_technician_id # 0 } }

FailedFor(r, technicianId) ==
  \E e \in 1..Len(r.summary.errors) : r.summary.errors[e].technicianId = technicianId

NoRepeatedTechnician(techMap) ==
  \A u, v \in 1..Len(techMap) :
    techMap[u].enabled /\ techMap[v].enabled /\ techMap[u].st_technician_id # 0
      /\ techMap[u].st_technician_id = techMap[v].st_technician_id => u = v

TargetedIds(listing, techMap) ==
  { listing[i].id : i \in { j \in 1..Len(listing) :
                            listing[j].technicianId \in Technicians(techMap) } }

DeleteCalls(r, id) ==
  Cardinality({ c \in 1..Len(r.calls) : r.calls[c].op = "delete" /\ r.calls[c].id = id })

\* C21: after a purge with dryRun false in which every call succeeded, no
\* appointment of a targeted technician that was listed at the start is left,
\* however many pages they fill, and each id was deleted and counted once.
PurgeDeletesEveryAppointment ==
  \A k \in 1..Len(reports) :
    LET r == reports[k]
        targeted == TargetedIds(r.before, cycle.techMap)
    IN ~r.dryRun /\ r.summary.errors = << >>
         => /\ r.after \cap targeted = {}
            /\ \A id \in targeted : DeleteCalls(r, id) = 1
            /\ r.summary.deleted = Cardinality(targeted)

\* ---- the backfills ----
\* C40: no step of a full-window backfill run reads or writes the cursor of a
\* user: the DeltaState sheet and the cursor held by the run stay what they
\* were, whatever events the run processes.
BackfillLeavesCursorAlone ==
  [][deltaSheet' = deltaSheet /\ deltaState' = deltaState /\ nextDeltaLink' = nextDeltaLink]_vars

\* a backfill run returned after walking events for one of which it created
\* an appointment, with rows in the cursor table
BackfillUpsertedBesideCursor ==
  /\ prev.end = "returned"
  /\ prev.walked > 0
  /\ deltaSheet # << >>
  /\ nextId > FirstFreshId

\* ---- the reset ----
\* a reset with dryRun false in which the purge recorded no error leaves no
\* appointment of a targeted technician behind
ResetWithoutErrorLeavesNothing ==
  \A k \in 1..Len(reports) :
    reports[k].sheetsCleared /\ reports[k].purge.errors = << >>
      => reports[k].after \cap TargetedIds(reports[k].before, cycle.techMap) = {}

\* a reset whose purge recorded an error for some technician leaves the
\* sheets as they were
ResetWithErrorKeepsSheets ==
  \A k \in 1..Len(reports) : reports[k].purge.errors # << >> => ~reports[k].sheetsCleared

\* C39: after a reset with dryRun false that cleared the mapping and cursor
\* sheets, no appointment that a targeted technician had in the window before
\* the reset is left in ServiceTitan: the sheets stay as they were when the
\* purge recorded a list or delete error for some technician.
ClearedSheetsMeanNoAppointmentLeft ==
  \A k \in 1..Len(reports) :
    /\ reports[k].sheetsCleared
         => reports[k].after \cap TargetedIds(reports[k].before, cycle.techMap) = {}
    /\ reports[k].purge.errors # << >> /\ ~reports[k].dryRun => ~reports[k].sheetsCleared

\* ---- runs that share the sheets ----
\* the rows of a user with their places in the sheet
RowsOf(sheet, upn) == { << i, sheet[i] >> : i \in { j \in 1..Len(sheet) : sheet[j].outlook_upn = upn } }

\* C22: while two runs for different users interleave, in one process or in
\* two, a step of one run leaves the other user's mapping rows and cursor row
\* as and where they are, and every row a process holds in its cache for a
\* user is the row at that place of the sheet.
RunsOfDifferentUsersAreIndependent ==
  /\ [](\A p \in Procs : \A u \in 1..2 :
          eventMapCache[p].loaded
            => RowsOf(eventMapCache[p].rows, Users[u]) \subseteq RowsOf(eventMap, Users[u]))
  /\ [][\A t \in 1..2 :
          tasks'[t] # tasks[t]
            => /\ RowsOf(eventMap', Users[3 - t]) = RowsOf(eventMap, Users[3 - t])
               /\ RowsOf(deltaSheet', Users[3 - t]) = RowsOf(deltaSheet, Users[3 - t])]_vars

\* what the engine decides for an event, given the rows its lookups see
Decisions(rows, upn, raw) ==
  { [outcome |-> r.outcome, calls |-> r.calls, writes |-> r.writes]
    : r \in processNormalizedEvent(OnRows(rows, appts, nextId), upn, normalizeGraphEvent(raw)) }

\* C23: whatever was written, soft-deleted or cleared, the engine decides for
\* every event from the cached rows what it would decide from the sheet:
\* the same skip, create, update or delete, and the same row written.
CacheNeverChangesDecision ==
  \A p \in Procs : \A u \in 1..2 : \A raw \in SharedEvents :
    eventMapCache[p].loaded
      => Decisions(eventMapCache[p].rows, Users[u], raw) = Decisions(eventMap, Users[u], raw)

\* ---- the retry wrappers ----
\* the failures the taxonomy calls transient: 429, 5xx, network error
Transient(fn, outcome) ==
  IF fn = "stApiRequest" THEN outcome = 429 \/ outcome >= 500 \/ outcome = 0
  ELSE ~outcome.ok /\ (outcome.code = 429 \/ outcome.code >= 500 \/ outcome.code = 0)

Succeeded(fn, outcome) ==
  IF fn = "stApiRequest" THEN outcome = 200 \/ outcome = 204 ELSE outcome.ok

\* C24: a call through a retry wrapper makes at most 4 (stApiRequest) or 6
\* (withRetry) attempts; a transient failure (429, 5xx, network error) is
\* followed by another attempt until that bound and surfaced at it, and any
\* other failure is surfaced by the attempt that met it.
RetriesAreBoundedAndClassified ==
  LET n == Len(call.args)
      bound == IF call.fn = "stApiRequest" THEN stMaxAttempts ELSE sheetsMaxAttempts
  IN /\ n <= bound
     /\ \A i \in 1..n :
          /\ Transient(call.fn, call.args[i]) => i = bound \/ i < n \/ ~call.done
          /\ ~Transient(call.fn, call.args[i]) => i = n /\ call.done
     /\ call.done /\ n > 0
          => call.result = IF Succeeded(call.fn, call.args[n]) THEN "returned" ELSE "thrown"

\* ---- deleteNonJob ----
DeleteOps == {"delete", "rollback"}

\* C25: a delete of an id that is already absent downstream returns normally
\* and changes nothing, so an id deleted once or twice is gone either way;
\* a delete is thrown only when the call itself failed, and then it is.
DeleteIsIdempotent ==
  [][ idx' = idx + 1 /\ last'.kind = "processed"
        => /\ \A c \in 1..Len(last'.calls) :
                last'.calls[c].op \in DeleteOps
                  => /\ last'.calls[c].ok => last'.calls[c].id \notin appts'
                     /\ ~last'.calls[c].ok => failures' > failures ]_vars

\* no call has failed of itself, an update met a 404, and the delete of the
\* same id afterwards returned
DeletedAbsentId ==
  /\ last.kind = "processed"
  /\ failures = 0
  /\ \E i, j \in 1..Len(last.calls) :
       /\ i < j
       /\ last.calls[i].op = "update" /\ ~last.calls[i].ok
       /\ last.calls[j].op = "delete" /\ last.calls[j].ok
       /\ last.calls[j].id = last.calls[i].id

\* ---- deleteMappedEvent ----
\* the mapping whose appointments the last event asked to delete: the row of
\* a tombstone's Graph id, or the row of an event that is no longer synced
Doomed ==
  IF last.event.isRemoved THEN last.byGid
  ELSE IF last.event.start # NoTime /\ last.event.end # NoTime
          /\ ~isSyncableBusyOrOof(last.event.showAs)
    THEN last.existing
  ELSE NoMapping

\* C26: when a tombstoned or no longer syncable event has a mapping and the
\* delete of one of its ids fails, the event does not end in an error, every
\* id of the mapping is still targeted by a delete and the soft delete of the
\* row is still written.
MappedDeleteIsBestEffort ==
  ( /\ Processed
    /\ Doomed.rowIndex # 0
    /\ \E j \in CallIdx : Calls[j].op = "delete" /\ ~Calls[j].ok )
    => /\ last.outcome # "threw"
       /\ \A i \in 1..Len(Doomed.st_nonjob_ids_json) :
            Targeted("delete", Doomed.st_nonjob_ids_json[i])
       /\ \E k \in 1..Len(last.writes) :
            /\ last.writes[k].rowIndex = Doomed.rowIndex
            /\ last.writes[k].row.status = Deleted


(* ------------------------- the upserted counter ------------------------ *)
\* C27: during a run, the number of events counted as upserted never exceeds
\* the number of mapping writes with status SYNCED that succeeded in the run.
UpsertedCountedAfterWrite ==
  summary.eventsUpserted <= run.synced

\* a run in which one event was counted and the write of another one failed
UpsertCountedAndWriteFailed ==
  /\ pc = "walk"
  /\ summary.eventsUpserted = 1
  /\ run.synced = 1
  /\ Processed
  /\ last.outcome = "threw"
  /\ \E k \in 1..Len(last.writes) :
       ~last.writes[k].ok /\ last.writes[k].row.status.tag = "SYNCED"

(* ---------------------- events that are not synced --------------------- *)
\* the event the loop processes next is neither a tombstone nor without its
\* times, and its tag is not one of the syncable ones
NotSyncable(e) ==
  ~e.isRemoved /\ e.start # NoTime /\ e.end # NoTime /\ ~isSyncableBusyOrOof(e.showAs)

\* the loop processes the event at idx in this step
Processes ==
  pc = "walk" /\ idx <= Len(normalizedEvents) /\ idx' = idx + 1 /\ last'.kind = "processed"

\* C28: processing an event whose tag is not busy or oof makes no create and
\* no update; when the event has a mapping, none of its appointments is left
\* downstream and its row is DELETED with an empty id list; and the event adds
\* exactly one to eventsSkipped and nothing to the other counters.
NonSyncableEventIsRemovedAndSkipped ==
  [][ (Processes /\ NotSyncable(normalizedEvents[idx]))
        => /\ \A j \in 1..Len(last'.calls) : last'.calls[j].op \notin {"create", "update"}
           /\ last'.existing.rowIndex # 0
                => /\ \A i \in 1..Len(last'.existing.st_nonjob_ids_json) :
                        last'.existing.st_nonjob_ids_json[i] \notin appts'
                   /\ eventMap'[last'.existing.rowIndex - 1].status.tag = "DELETED"
                   /\ eventMap'[last'.existing.rowIndex - 1].st_nonjob_ids_json = << >>
           /\ summary' = [summary EXCEPT !.eventsSkipped = @ + 1] ]_vars

\* the same statement for the steps in which no call to a collaborator failed
NonSyncableEventWithoutFailure ==
  [][ (Processes /\ NotSyncable(normalizedEvents[idx]) /\ failures' = failures)
        => /\ \A j \in 1..Len(last'.calls) : last'.calls[j].op \notin {"create", "update"}
           /\ last'.existing.rowIndex # 0
                => /\ \A i \in 1..Len(last'.existing.st_nonjob_ids_json) :
                        last'.existing.st_nonjob_ids_json[i] \notin appts'
                   /\ eventMap'[last'.existing.rowIndex - 1].status.tag = "DELETED"
                   /\ eventMap'[last'.existing.rowIndex - 1].st_nonjob_ids_json = << >>
           /\ summary' = [summary EXCEPT !.eventsSkipped = @ + 1] ]_vars

(* --------------------- events without start or end --------------------- *)
LacksTime(e) == ~e.isRemoved /\ (e.start = NoTime \/ e.end = NoTime)

RowKept(i) ==
  /\ i <= Len(eventMap')
  /\ eventMap'[i].outlook_upn = eventMap[i].outlook_upn
  /\ eventMap'[i].outlook_event_id = eventMap[i].outlook_event_id

\* C30: no step of a sync run removes a mapping row: every row of the mapping
\* table is afterwards still at its row index, for the same user and key, so
\* the set of (user, key) rows only grows.
MappingRowsAreNeverRemoved ==
  [][ \A i \in 1..Len(eventMap) : eventMap[i] # BlankRow => RowKept(i) ]_vars

\* the same statement for runs that are all served by one process
MappingRowsKeptInOneProcess ==
  [][ (\A t \in 1..Len(tasks) : tasks[t].proc = 1)
        => \A i \in 1..Len(eventMap) : eventMap[i] # BlankRow => RowKept(i) ]_vars

\* a soft delete rewrites the row it was given: same index, same user and
\* key, no ids, status DELETED
SoftDeleteRewritesItsRow ==
  [][ \A k \in 1..Len(last'.writes) :
        (last'.writes[k].ok /\ last'.writes[k].row.status.tag = "DELETED")
          => /\ last'.writes[k].rowIndex # 0
             /\ Len(eventMap') = Len(eventMap)
             /\ eventMap'[last'.writes[k].rowIndex - 1] = last'.writes[k].row
             /\ last'.writes[k].row.st_nonjob_ids_json = << >>
             /\ RowKept(last'.writes[k].rowIndex - 1) ]_vars

(* --------------------------- the stable key ---------------------------- *)
\* no two rows of the mapping table are rows of the same user and key
OneRowPerKey ==
  \A i, j \in 1..Len(eventMap) :
    (eventMap[i].outlook_upn = eventMap[j].outlook_upn
       /\ eventMap[i].outlook_event_id = eventMap[j].outlook_event_id) => i = j

\* the key holds the provider id only when the uid, the start or the end is missing
KeyUsesUid(e) ==
  (trim(e.iCalUId) # "" /\ e.start # NoTime /\ e.end # NoTime)
    => getStableEventKey(e) = << trim(e.iCalUId), e.start, e.end >>

\* C31: between two events of any run, every occurrence has one key whatever
\* its provider id, the table has at most one row per user and key, and the
\* appointments that exist downstream are those the rows refer to, so no
\* occurrence has a second live set of appointments.
OneRowAndOneLiveSetPerOccurrence ==
  /\ OneRowPerKey
  /\ \A i \in 1..Len(events) : KeyUsesUid(normalizeGraphEvent(events[i]))
  /\ appts \subseteq IdsOf(eventMap)

\* the same statement for the behaviours in which no call has failed
OneLiveSetWithoutFailure ==
  failures = 0 => OneRowAndOneLiveSetPerOccurrence

(* ------------------- durations of a three-day event -------------------- *)
\* the mapped event starts within one local day and ends within the second
\* local day after it
SpansThreeDays ==
  /\ Mapped
  /\ LocalDay(ToLocal(call.args.end)) = LocalDay(ToLocal(call.args.start)) + 2
  /\ ToLocal(call.args.end) > startOfDay(ToLocal(call.args.end))

\* C32: an event from within a first local day to within the third gives three
\* payloads whose durations are the rest of the first day up to midnight, a
\* whole day, and the part of the last day before the end; together they are
\* the duration of the event.
ThreeDayDurationsAddUp ==
  SpansThreeDays =>
    LET start == ToLocal(call.args.start)
        end == ToLocal(call.args.end)
        p == call.result
    IN /\ Len(p) = 3
       /\ p[1].duration = startOfDay(start) + DayLen - start
       /\ p[2].duration = DayLen
       /\ p[3].duration = end - startOfDay(end)
       /\ p[1].duration + p[2].duration + p[3].duration = end - start

(* ------------------ runs of one user that interleave ------------------- *)
\* the run found no mapping for its event and has passed its upsert
UpsertedUnmapped(t) ==
  tasks[t].pc \in {"write", "cursor", "done"} /\ tasks[t].existing.rowIndex = 0

Written(t) == tasks[t].pc \in {"cursor", "done"}

IdSet(ids) == { ids[i] : i \in 1..Len(ids) }

\* C33: whenever two runs of one user have both found no mapping for the
\* event and both have passed their upsert, each of them has created
\* appointments of its own for it, all of which exist downstream; and once
\* both have written, the table holds two rows for the key, of which a lookup
\* returns the first.
InterleavedRunsCreateTwice ==
  \A t, u \in 1..Len(tasks) :
    (t # u /\ UpsertedUnmapped(t) /\ UpsertedUnmapped(u))
      => /\ tasks[t].ids # << >>
         /\ IdSet(tasks[t].ids) \cap IdSet(tasks[u].ids) = {}
         /\ IdSet(tasks[t].ids) \subseteq appts
         /\ (Written(t) /\ Written(u)) => ~OneRowPerKey

\* two runs are over, both created an appointment for the same occurrence,
\* and the mapping a lookup returns refers to one of them only
DuplicateAppointmentsCreated ==
  \E t, u \in 1..Len(tasks) :
    /\ t # u
    /\ tasks[t].pc = "done" /\ tasks[u].pc = "done"
    /\ UpsertedUnmapped(t) /\ UpsertedUnmapped(u)
    /\ tasks[t].event = tasks[u].event
    /\ IdSet(tasks[t].ids) \cup IdSet(tasks[u].ids) \subseteq appts
    /\ IdSet(findEventMapping(eventMap, Upn, getStableEventKey(RaceEvent(t))).st_nonjob_ids_json)
         = IdSet(tasks[t].ids)

\* two runs are over that read the same cursor row, and the cursor stored is
\* the older of their two links
OlderCursorOverwritesNewer ==
  \E t, u \in 1..Len(tasks) :
    /\ tasks[t].pc = "done" /\ tasks[u].pc = "done"
    /\ tasks[t].deltaRow # 0 /\ tasks[t].deltaRow = tasks[u].deltaRow
    /\ tasks[t].link < tasks[u].link
    /\ Cursor = tasks[t].link

\* two runs are over that both updated the row of the mapping, and the row
\* holds the hash of the older version of the event
OlderMappingOverwritesNewer ==
  \E t, u \in 1..Len(tasks) :
    /\ tasks[t].pc = "done" /\ tasks[u].pc = "done"
    /\ tasks[t].existing.rowIndex # 0 /\ tasks[t].existing.rowIndex = tasks[u].existing.rowIndex
    /\ tasks[t].event.lastModifiedDateTime < tasks[u].event.lastModifiedDateTime
    /\ RowAt(tasks[t].existing.rowIndex).last_hash = getEventDedupeKey(RaceEvent(t))

(* ----------------------- names of the payloads ------------------------- *)
\* the name the event is to get: its subject, or the label of its tag
ExpectedName(event) ==
  IF event.subject # "" THEN event.subject
  ELSE IF event.showAs = "oof" THEN "Out of Office" ELSE "Busy"

\* C34: every payload of an event that is not private is named by the subject
\* of the event when it has one, and else 'Out of Office' for the tag oof and
\* 'Busy' for any other tag; all blocks of the event get the same name.
NameIsSubjectOrTagLabel ==
  (Mapped /\ ~call.args.isPrivate) =>
     \A i \in 1..Len(call.result) : call.result[i].name = ExpectedName(call.args)

\* the same statement for the name getMaskedSubject gives
MaskedSubjectIsSubjectOrTagLabel ==
  (Mapped /\ ~call.args.isPrivate) => getMaskedSubject(call.args) = ExpectedName(call.args)

(* ------------------- events that come back after a delete -------------- *)
\* the last event is busy or oof, has its times, and its row was DELETED
BackAfterDelete ==
  /\ Processed
  /\ ~last.event.isRemoved
  /\ last.event.start # NoTime /\ last.event.end # NoTime
  /\ isSyncableBusyOrOof(last.event.showAs)
  /\ last.existing.rowIndex # 0
  /\ last.existing.status.tag = "DELETED"

\* C35: a busy or oof event whose mapping row is DELETED is never skipped as
\* unchanged; when no call fails it is counted as upserted, its row is SYNCED
\* again and refers to appointments that exist downstream.
DeletedRowIsUpsertedAgain ==
  BackAfterDelete =>
    /\ last.outcome # "skipped"
    /\ (AllCallsOk /\ ~WriteFailed) =>
         /\ last.outcome = "upserted"
         /\ RowAt(last.existing.rowIndex).status.tag = "SYNCED"
         /\ RowAt(last.existing.rowIndex).st_nonjob_ids_json # << >>
         /\ IdSet(RowAt(last.existing.rowIndex).st_nonjob_ids_json) \subseteq appts

\* the same statement for the events whose fingerprint differs from the one
\* the DELETED row carries
ChangedEventIsUpsertedAgain ==
  (BackAfterDelete /\ last.existing.last_hash # getEventDedupeKey(last.event))
    => /\ last.outcome # "skipped"
       /\ (AllCallsOk /\ ~WriteFailed) =>
            /\ last.outcome = "upserted"
            /\ RowAt(last.existing.rowIndex).status.tag = "SYNCED"

(* ------------------ appointments created for an event ------------------ *)
\* the ids the row of the last event refers to
RowIds ==
  IdSet(findEventMapping(eventMap, Upn, getStableEventKey(last.event)).st_nonjob_ids_json)

\* C36: after an event was processed, whether it ended by a return or by an
\* exception, every appointment created for it is referred to by the row of
\* the event or was the target of a later delete.
CreatedIsReferencedOrDeleted ==
  Processed =>
    \A j \in CallIdx :
      (Calls[j].op = "create" /\ Calls[j].ok)
        => \/ Calls[j].id \in RowIds
           \/ \E k \in CallIdx : k > j /\ Calls[k].op \in DeleteOps /\ Calls[k].id = Calls[j].id

\* the same statement for the events that ended by a return
CreatedIsReferencedAfterReturn ==
  (Processed /\ last.outcome # "threw")
    => \A j \in CallIdx :
         (Calls[j].op = "create" /\ Calls[j].ok)
           => \/ Calls[j].id \in RowIds
              \/ \E k \in CallIdx : k > j /\ Calls[k].op \in DeleteOps /\ Calls[k].id = Calls[j].id

(* ------------------------ the counters of a run ------------------------ *)
\* events of the batch that have a provider id
WithId == Cardinality({ i \in 1..Len(events) : events[i].id # "" })

Counted == summary.eventsUpserted + summary.eventsSkipped + Len(summary.errors)

\* C37: during the walk of a batch every event taken so far is counted in
\* exactly one of eventsUpserted, eventsSkipped and the error records; when
\* the walk is over the three add up to the number of fetched events that
\* have a provider id, which is at most eventsFetched.
EveryEventCountedOnce ==
  pc = "walk" =>
    /\ Counted = idx - 1
    /\ Counted <= WithId
    /\ WithId <= summary.eventsFetched
    /\ idx > Len(normalizedEvents) => Counted = WithId

\* a walk is over whose batch held an event without provider id and an
\* event that ended in an error
WalkOverWithUncountedEvent ==
  /\ pc = "walk"
  /\ idx > Len(normalizedEvents)
  /\ WithId < summary.eventsFetched
  /\ Len(summary.errors) = 1
  /\ Counted = 1

(* ------------------- subjects of private events ------------------------ *)
\* the engine's view of the sheets and of ServiceTitan before the next event
EngineState ==
  [ appts |-> appts, nextId |-> nextId, sheet |-> eventMap, calls |-> << >>, writes |-> << >>,
    threw |-> FALSE, ret |-> << >>, budget |-> MaxFailures - failures, outcome |-> "" ]

\* the loop is about to process a private event
PrivateNext ==
  pc = "walk" /\ idx <= Len(normalizedEvents) /\ normalizedEvents[idx].isPrivate

\* C38: whatever subject a private event carries, processing it from the
\* same state gives the same fingerprint and key, the same payloads, all named
\* 'Busy', and the same possible outcomes: calls, rows written, appointments
\* and sheet; so the subject reaches neither ServiceTitan nor the mapping rows.
PrivateSubjectDoesNotInterfere ==
  PrivateNext =>
    LET e == normalizedEvents[idx]
    IN \A subject \in Subjects :
         LET f == [e EXCEPT !.subject = subject]
         IN /\ getEventDedupeKey(f) = getEventDedupeKey(e)
            /\ getStableEventKey(f) = getStableEventKey(e)
            /\ getEventDedupeKey(f)[Len(getEventDedupeKey(f))] = ""
            /\ (e.start # NoTime /\ e.end # NoTime)
                 => /\ mapEventToServiceTitanPayloads(f) = mapEventToServiceTitanPayloads(e)
                    /\ \A i \in 1..Len(mapEventToServiceTitanPayloads(f)) :
                         mapEventToServiceTitanPayloads(f)[i].name = "Busy"
            /\ processNormalizedEvent(EngineState, Upn, f)
                 = processNormalizedEvent(EngineState, Upn, e)

\* a private event with a subject was upserted
PrivateEventUpserted ==
  /\ Processed
  /\ last.event.isPrivate
  /\ last.event.subject = "Confidential"
  /\ last.outcome = "upserted"
  /\ \E j \in CallIdx : Calls[j].op = "create" /\ Calls[j].ok
  /\ \E k \in 1..Len(last.writes) : last.writes[k].ok

====
